---- MODULE Spec2Model ----
(***************************************************************************)
(* Workflow graph model, graph processor, assembler and validator of the   *)
(* automation engine (src/src/models/workflow.py,                          *)
(* src/src/integrations/n8n_processor.py, src/src/modules/assembly.py,     *)
(* src/src/modules/validation.py).                                         *)
(*                                                                         *)
(* Python strings are sequences of one-character strings, so that          *)
(* startswith, substring search, prefixing and name normalisation are      *)
(* computed character by character as the code computes them.              *)
(***************************************************************************)
EXTENDS Integers, Sequences, FiniteSets, TLC

VARIABLES call, ret, wf, prev, ops, asm, results, report

vars == <<call, ret, wf, prev, ops, asm, results, report>>

\* Python's None.
None == [none |-> TRUE]

(***************************************************************************)
(* Bounds of the model.                                                    *)
(***************************************************************************)
\* longest node name handed to the Node constructor
MaxNameLen == 2
\* longest workflow name handed to the Workflow constructor
MaxWfNameLen == 3
\* retries values handed to the Node constructor are 0..MaxRetriesIn
MaxRetriesIn == 4
\* most nodes in a node list handed to the Workflow constructor
MaxNodes == 2

(***************************************************************************)
(* Strings.                                                                *)
(***************************************************************************)
LowerChars == {"a", "b", "c", "d", "e", "f", "g", "h", "i", "j", "k", "l", "m", "n", "o", "p", "q", "r", "s", "t", "u", "v", "w", "x", "y", "z"}

DigitChars == {"0", "1", "2", "3", "4", "5", "6", "7", "8", "9"}

UpperToLower == ("A" :> "a") @@ ("B" :> "b") @@ ("C" :> "c") @@ ("D" :> "d") @@ ("E" :> "e") @@ ("F" :> "f") @@ ("G" :> "g") @@ ("H" :> "h") @@ ("I" :> "i") @@ ("J" :> "j") @@ ("K" :> "k") @@ ("L" :> "l") @@ ("M" :> "m") @@ ("N" :> "n") @@ ("O" :> "o") @@ ("P" :> "p") @@ ("Q" :> "q") @@ ("R" :> "r") @@ ("S" :> "s") @@ ("T" :> "t") @@ ("U" :> "u") @@ ("V" :> "v") @@ ("W" :> "w") @@ ("X" :> "x") @@ ("Y" :> "y") @@ ("Z" :> "z")

UpperChars == DOMAIN UpperToLower

\* the punctuation listed by validate_naming_convention (its backslash,
\* double quote and backquote are left out: no name of the model holds them)
SpecialChars == {"!", "@", "#", "$", "%", "^", "&", "*", "(", ")", "-", "+", "=", "{", "}", "[", "]", "|", ":", ";", "<", ">", "?", ",", ".", "/", "~"}

\* str.lower() of one character
LowerChar(c) ==
    IF c \in UpperChars THEN UpperToLower[c] ELSE c

\* str.lower()
Lower(s) ==
    [i \in 1..Len(s) |-> LowerChar(s[i])]

\* str.startswith(p)
StartsWith(s, p) ==
    /\ Len(s) >= Len(p)
    /\ SubSeq(s, 1, Len(p)) = p

\* sub in s
Contains(s, sub) ==
    \E i \in 1..(Len(s) - Len(sub) + 1) : SubSeq(s, i, i + Len(sub) - 1) = sub

\* s with every character of D replaced by r
MapChars(s, D, r) ==
    [i \in 1..Len(s) |-> IF s[i] \in D THEN r ELSE s[i]]

\* the characters of s that are in keep, in order
RECURSIVE FilterChars(_, _)
FilterChars(s, keep) ==
    IF s = <<>> THEN <<>>
    ELSE IF Head(s) \in keep THEN <<Head(s)>> \o FilterChars(Tail(s), keep)
    ELSE FilterChars(Tail(s), keep)

\* re.sub('[D]+', r, s): every maximal run of characters of D becomes one r
RECURSIVE SubRuns(_, _, _)
SubRuns(s, D, r) ==
    IF s = <<>> THEN <<>>
    ELSE IF Head(s) \in D
         THEN IF Len(s) > 1 /\ s[2] \in D
              THEN SubRuns(Tail(s), D, r)
              ELSE <<r>> \o SubRuns(Tail(s), D, r)
         ELSE <<Head(s)>> \o SubRuns(Tail(s), D, r)

RECURSIVE LStrip(_, _)
LStrip(s, c) ==
    IF s # <<>> /\ Head(s) = c THEN LStrip(Tail(s), c) ELSE s

RECURSIVE RStrip(_, _)
RStrip(s, c) ==
    IF s # <<>> /\ s[Len(s)] = c THEN RStrip(SubSeq(s, 1, Len(s) - 1), c) ELSE s

\* str.strip(c)
Strip(s, c) ==
    RStrip(LStrip(s, c), c)

\* all strings over the characters A of length at most n
RECURSIVE StringsUpTo(_, _)
StringsUpTo(A, n) ==
    IF n = 0 THEN {<<>>}
    ELSE LET shorter == StringsUpTo(A, n - 1)
         IN shorter \cup {Append(s, c) : s \in shorter, c \in A}

\* all sequences over the set S of length at most n
RECURSIVE SeqsUpTo(_, _)
SeqsUpTo(S, n) ==
    IF n = 0 THEN {<<>>}
    ELSE LET shorter == SeqsUpTo(S, n - 1)
         IN shorter \cup {Append(s, x) : s \in shorter, x \in S}

\* the set of elements of a sequence
Range(s) ==
    {s[i] : i \in 1..Len(s)}

(***************************************************************************)
(* Node kinds and JSON values.                                             *)
(***************************************************************************)
\* node kinds (N8nNode.type)
K_webhook == "n8n-nodes-base.webhook"

K_slack == "n8n-nodes-base.slack"

K_hubspot == "n8n-nodes-base.hubspot"

K_salesforce == "n8n-nodes-base.salesforce"

K_gmail == "n8n-nodes-base.gmail"

K_notion == "n8n-nodes-base.notion"

K_set == "n8n-nodes-base.set"

\* a parameter value: a string, a boolean, a number or a nested dict
StrVal(s) == [s |-> s]

BoolVal(b) == [b |-> b]

NumVal(n) == [n |-> n]

DictVal(d) == [d |-> d]

\* the empty dict
EmptyDict == <<>>

(***************************************************************************)
(* models/workflow.py: the node and workflow models.                       *)
(***************************************************************************)
\* what a failed pydantic validation raises
SchemaError == [ok |-> FALSE, err |-> "ValidationError"]

Ok(v) == [ok |-> TRUE, val |-> v]

NodePosition(x, y) == [x |-> x, y |-> y]

\* N8nNode.validate_naming_convention: TRUE when the validator returns v,
\* FALSE when it raises
validate_naming_convention(v) ==
    LET valid_chars == LowerChars \cup UpperChars \cup DigitChars \cup {"_"}
    IN /\ \A i \in 1..Len(v) : v[i] \in valid_chars
       /\ ~ \/ \E i \in 1..Len(v) : v[i] = " "
            \/ \E i \in 1..Len(v) : v[i] \in UpperChars
            \/ \E i \in 1..Len(v) : v[i] \in SpecialChars

validate_retry_count_loose(v) ==
    v <= 3

\* N8nNode.validate_retry_count: TRUE when the validator returns v
validate_retry_count(v) ==
    v = 3

\* N8nNode(...): the node, or the validation error
N8nNode(id, name, type, position, parameters, credentials, retries, retry_on_fail) ==
    IF validate_naming_convention(name) /\ validate_retry_count(retries)
    THEN Ok([id |-> id, name |-> name, type |-> type, position |-> position, parameters |-> parameters, credentials |-> credentials, retries |-> retries, retry_on_fail |-> retry_on_fail])
    ELSE SchemaError

validate_workflow_naming_nostrip(v) ==
    LET valid_chars == LowerChars \cup DigitChars \cup {"_"}
        lowered == MapChars(MapChars(Lower(v), {" "}, "_"), {"-"}, "_")
        cleaned == [i \in 1..Len(lowered) |-> IF lowered[i] \in valid_chars THEN lowered[i] ELSE "_"]
    IN SubRuns(cleaned, {"_"}, "_")

\* N8nWorkflow.validate_workflow_naming: the normalized name
validate_workflow_naming(v) ==
    LET valid_chars == LowerChars \cup DigitChars \cup {"_"}
        lowered == MapChars(MapChars(Lower(v), {" "}, "_"), {"-"}, "_")
        cleaned == [i \in 1..Len(lowered) |-> IF lowered[i] \in valid_chars THEN lowered[i] ELSE "_"]
    IN Strip(SubRuns(cleaned, {"_"}, "_"), "_")

\* N8nWorkflow.validate_required_nodes: TRUE when the validator returns v
validate_required_nodes(v) ==
    ~ (v = <<>> \/ Len(v) = 0)

\* N8nWorkflow(...): the workflow, or the validation error
N8nWorkflow(name, nodes, connections, settings, id, active, tags) ==
    IF validate_required_nodes(nodes)
    THEN Ok([name |-> validate_workflow_naming(name), nodes |-> nodes, connections |-> connections, settings |-> settings, id |-> id, active |-> active, tags |-> tags])
    ELSE SchemaError

\* Python truthiness of an optional value: None, a string (StrVal) or a
\* dict (DictVal)
Truthy(v) ==
    v # None /\ v # [s |-> <<>>] /\ v # [d |-> <<>>]

\* N8nWorkflow.to_n8n_json: the wire document
to_n8n_json(w) ==
    LET node_json(node) ==
            [id |-> node.id, name |-> node.name, type |-> node.type, position |-> <<node.position.x, node.position.y>>, parameters |-> node.parameters]
            @@ (IF Truthy(node.credentials) THEN [credentials |-> node.credentials] ELSE <<>>)
    IN [name |-> w.name, nodes |-> [i \in 1..Len(w.nodes) |-> node_json(w.nodes[i])], connections |-> w.connections, settings |-> w.settings, active |-> w.active, tags |-> w.tags]
       @@ (IF Truthy(w.id) THEN [id |-> w.id] ELSE <<>>)

\* dict.get(key, default) on a wire document
Get(d, key, default) ==
    IF key \in DOMAIN d THEN d[key] ELSE default

from_n8n_json_swapped(data) ==
    LET node_of(nd) ==
            N8nNode(nd.id, nd.name, nd.type, NodePosition(Get(nd, "position", <<0, 0>>)[2], Get(nd, "position", <<0, 0>>)[1]), Get(nd, "parameters", <<>>), Get(nd, "credentials", None), 3, TRUE)
        raw == Get(data, "nodes", <<>>)
        built == [i \in 1..Len(raw) |-> node_of(raw[i])]
    IN IF \E i \in 1..Len(built) : ~ built[i].ok
       THEN SchemaError
       ELSE N8nWorkflow(data.name, [i \in 1..Len(built) |-> built[i].val], Get(data, "connections", <<>>), Get(data, "settings", <<>>), Get(data, "id", None), Get(data, "active", FALSE), Get(data, "tags", <<>>))

\* N8nWorkflow.from_n8n_json: the workflow built from a wire document, or the
\* validation error of the first node or of the workflow
from_n8n_json(data) ==
    LET node_of(nd) ==
            N8nNode(nd.id, nd.name, nd.type, NodePosition(Get(nd, "position", <<0, 0>>)[1], Get(nd, "position", <<0, 0>>)[2]), Get(nd, "parameters", <<>>), Get(nd, "credentials", None), 3, TRUE)
        raw == Get(data, "nodes", <<>>)
        built == [i \in 1..Len(raw) |-> node_of(raw[i])]
    IN IF \E i \in 1..Len(built) : ~ built[i].ok
       THEN SchemaError
       ELSE N8nWorkflow(data.name, [i \in 1..Len(built) |-> built[i].val], Get(data, "connections", <<>>), Get(data, "settings", <<>>), Get(data, "id", None), Get(data, "active", FALSE), Get(data, "tags", <<>>))

(***************************************************************************)
(* integrations/n8n_processor.py: the graph processor.  Every operation    *)
(* takes the workflow object and yields it as the operation leaves it, or  *)
(* the error it raises.                                                    *)
(***************************************************************************)
\* what WorkflowProcessor raises
ProcessingError(msg) == [ok |-> FALSE, err |-> "WorkflowProcessorError", msg |-> msg]

\* the characters \s matches in the names of the model
WhitespaceChars == {" "}

\* WorkflowProcessor._normalize_name
_normalize_name(name) ==
    LET spaced == SubRuns(Lower(name), WhitespaceChars \cup {"-"}, "_")
        kept == FilterChars(spaced, LowerChars \cup DigitChars \cup {"_"})
        collapsed == SubRuns(kept, {"_"}, "_")
        normalized == Strip(collapsed, "_")
    IN IF normalized = <<>> THEN <<"u", "n", "n", "a", "m", "e", "d">> ELSE normalized

\* type_prefixes.get(node.type, "")
TypePrefix(type) ==
    CASE type = K_slack -> <<"s", "l", "a", "c", "k", "_">>
      [] type = K_hubspot -> <<"h", "u", "b", "s", "p", "o", "t", "_">>
      [] type = K_salesforce -> <<"s", "a", "l", "e", "s", "f", "o", "r", "c", "e", "_">>
      [] type = K_gmail -> <<"g", "m", "a", "i", "l", "_">>
      [] type = K_notion -> <<"n", "o", "t", "i", "o", "n", "_">>
      [] type = K_webhook -> <<"w", "e", "b", "h", "o", "o", "k", "_">>
      [] OTHER -> <<>>

\* prefix.split('_')[0] for the prefixes the skip test lists
SkipPrefixes == {<<"s", "l", "a", "c", "k">>, <<"h", "u", "b", "s", "p", "o", "t">>, <<"s", "a", "l", "e", "s", "f", "o", "r", "c", "e">>, <<"g", "m", "a", "i", "l">>, <<"n", "o", "t", "i", "o", "n">>}

_add_integration_prefix_always(node) ==
    TypePrefix(node.type) \o node.name

\* WorkflowProcessor._add_integration_prefix
_add_integration_prefix(node) ==
    IF \E p \in SkipPrefixes : StartsWith(node.name, p)
    THEN node.name
    ELSE TypePrefix(node.type) \o node.name

\* WorkflowProcessor.enforce_naming_conventions
enforce_naming_conventions(w) ==
    LET renamed(node) ==
            LET n1 == [node EXCEPT !.name = _normalize_name(node.name)]
            IN [n1 EXCEPT !.name = _add_integration_prefix(n1)]
    IN Ok([w EXCEPT !.name = _normalize_name(w.name), !.nodes = [i \in 1..Len(w.nodes) |-> renamed(w.nodes[i])]])

\* node.parameters[key] = value
SetKey(d, key, value) ==
    (key :> value) @@ d

\* the retry step of one node
RetryNode(node) ==
    IF node.retries = 3 /\ node.retry_on_fail
    THEN node
    ELSE LET params == IF <<"r", "e", "t", "r", "y", "O", "n", "F", "a", "i", "l">> \notin DOMAIN node.parameters
                       THEN SetKey(SetKey(SetKey(node.parameters, <<"r", "e", "t", "r", "y", "O", "n", "F", "a", "i", "l">>, BoolVal(TRUE)), <<"m", "a", "x", "T", "r", "i", "e", "s">>, NumVal(3)), <<"w", "a", "i", "t", "B", "e", "t", "w", "e", "e", "n", "T", "r", "i", "e", "s">>, NumVal(200))
                       ELSE node.parameters
         IN [node EXCEPT !.retries = 3, !.retry_on_fail = TRUE, !.parameters = params]

inject_retry_logic_clobber(w) ==
    LET forced(node) == [node EXCEPT !.retries = 3, !.retry_on_fail = TRUE, !.parameters = SetKey(SetKey(SetKey(node.parameters, <<"r", "e", "t", "r", "y", "O", "n", "F", "a", "i", "l">>, BoolVal(TRUE)), <<"m", "a", "x", "T", "r", "i", "e", "s">>, NumVal(3)), <<"w", "a", "i", "t", "B", "e", "t", "w", "e", "e", "n", "T", "r", "i", "e", "s">>, NumVal(200))]
    IN Ok([w EXCEPT !.nodes = [i \in 1..Len(w.nodes) |-> forced(w.nodes[i])]])

\* WorkflowProcessor.inject_retry_logic
inject_retry_logic(w) ==
    Ok([w EXCEPT !.nodes = [i \in 1..Len(w.nodes) |-> RetryNode(w.nodes[i])]])

\* WorkflowProcessor._supports_idempotency (googleSheets and airtable are
\* no node kinds of the model)
_supports_idempotency(node) ==
    node.type \in {K_salesforce, K_hubspot, K_notion}

\* hashlib.md5(name.encode()).hexdigest()[:8]: eight hexadecimal digits that
\* depend on the name alone
WorkflowSalt(name) == [md5_8 |-> name]

\* WorkflowProcessor.add_idempotency_keys with key_field "email"
add_idempotency_keys(w) ==
    LET keyed(node) ==
            IF _supports_idempotency(node)
            THEN [node EXCEPT !.parameters = SetKey(SetKey(SetKey(node.parameters, <<"i", "d", "e", "m", "p", "o", "t", "e", "n", "c", "y", "K", "e", "y">>, StrVal(<<"{", "{", " ", "h", "a", "s", "h", "(", "'", "e", "m", "a", "i", "l", "'", ")", " ", "}", "}">>)), <<"d", "e", "d", "u", "p", "l", "i", "c", "a", "t", "i", "o", "n", "F", "i", "e", "l", "d">>, StrVal(<<"e", "m", "a", "i", "l">>)), <<"w", "o", "r", "k", "f", "l", "o", "w", "S", "a", "l", "t">>, WorkflowSalt(w.name))]
            ELSE node
    IN Ok([w EXCEPT !.nodes = [i \in 1..Len(w.nodes) |-> keyed(w.nodes[i])]])

\* str(i) of a list index
IntStr(i) ==
    LET d == <<"0", "1", "2", "3", "4", "5", "6", "7", "8", "9">>
    IN IF i < 10 THEN <<d[i + 1]>>
       ELSE IF i < 100 THEN <<d[(i \div 10) + 1], d[(i % 10) + 1]>>
       ELSE <<d[(i \div 100) + 1], d[((i \div 10) % 10) + 1], d[(i % 10) + 1]>>

\* the nodes of s that satisfy keep, in order, each with its 0-based index
RECURSIVE Selected(_, _, _)
Selected(nodes, i, skip) ==
    IF i > Len(nodes) THEN <<>>
    ELSE IF \E p \in skip : StartsWith(nodes[i].name, p)
         THEN Selected(nodes, i + 1, skip)
         ELSE <<[node |-> nodes[i], i |-> i - 1]>> \o Selected(nodes, i + 1, skip)

\* the logging node add_logging_instrumentation builds for node at index i
LogNode(node, i, wfname) ==
    N8nNode(<<"l", "o", "g", "_">> \o node.id \o <<"_">> \o IntStr(i),
            <<"l", "o", "g", "_", "_">> \o node.name,
            K_set,
            NodePosition(node.position.x + 300, node.position.y),
            (<<"v", "a", "l", "u", "e", "s">> :> DictVal((<<"t", "i", "m", "e", "s", "t", "a", "m", "p">> :> StrVal(<<"{", "{", " ", "n", "e", "w", " ", "D", "a", "t", "e", "(", ")", ".", "t", "o", "I", "S", "O", "S", "t", "r", "i", "n", "g", "(", ")", " ", "}", "}">>)) @@ (<<"n", "o", "d", "e", "_", "i", "d">> :> StrVal(node.id)) @@ (<<"n", "o", "d", "e", "_", "n", "a", "m", "e">> :> StrVal(node.name)) @@ (<<"w", "o", "r", "k", "f", "l", "o", "w", "_", "n", "a", "m", "e">> :> StrVal(wfname)) @@ (<<"e", "x", "e", "c", "u", "t", "i", "o", "n", "_", "t", "i", "m", "e">> :> StrVal(<<"{", "{", " ", "$", "n", "o", "w", " ", "-", " ", "$", "n", "o", "d", "e", "E", "x", "e", "c", "u", "t", "i", "o", "n", "S", "t", "a", "r", "t", " ", "}", "}">>)) @@ (<<"s", "u", "c", "c", "e", "s", "s">> :> StrVal(<<"{", "{", " ", "$", "n", "o", "d", "e", ".", "s", "u", "c", "c", "e", "s", "s", " ", "}", "}">>)) @@ (<<"i", "t", "e", "m", "_", "c", "o", "u", "n", "t">> :> StrVal(<<"{", "{", " ", "$", "i", "n", "p", "u", "t", ".", "a", "l", "l", "(", ")", ".", "l", "e", "n", "g", "t", "h", " ", "}", "}">>)))) @@ (<<"o", "p", "t", "i", "o", "n", "s">> :> DictVal((<<"d", "o", "t", "N", "o", "t", "a", "t", "i", "o", "n">> :> BoolVal(TRUE)))),
            None, 3, TRUE)

\* the error node add_error_handling builds for node at index i
ErrorNode(node, i, wfname) ==
    N8nNode(<<"e", "r", "r", "o", "r", "_">> \o node.id \o <<"_">> \o IntStr(i),
            <<"e", "r", "r", "o", "r", "_", "_">> \o node.name,
            K_webhook,
            NodePosition(node.position.x, node.position.y + 300),
            (<<"p", "a", "t", "h">> :> StrVal(<<"/", "e", "r", "r", "o", "r", "-", "h", "a", "n", "d", "l", "e", "r">>)) @@ (<<"h", "t", "t", "p", "M", "e", "t", "h", "o", "d">> :> StrVal(<<"P", "O", "S", "T">>)) @@ (<<"r", "e", "s", "p", "o", "n", "s", "e", "M", "o", "d", "e">> :> StrVal(<<"o", "n", "R", "e", "c", "e", "i", "v", "e", "d">>)) @@ (<<"e", "r", "r", "o", "r", "D", "a", "t", "a">> :> DictVal((<<"o", "r", "i", "g", "i", "n", "a", "l", "_", "n", "o", "d", "e">> :> StrVal(node.name)) @@ (<<"w", "o", "r", "k", "f", "l", "o", "w", "_", "n", "a", "m", "e">> :> StrVal(wfname)) @@ (<<"t", "i", "m", "e", "s", "t", "a", "m", "p">> :> StrVal(<<"{", "{", " ", "n", "e", "w", " ", "D", "a", "t", "e", "(", ")", ".", "t", "o", "I", "S", "O", "S", "t", "r", "i", "n", "g", "(", ")", " ", "}", "}">>)) @@ (<<"e", "r", "r", "o", "r", "_", "m", "e", "s", "s", "a", "g", "e">> :> StrVal(<<"{", "{", " ", "$", "j", "s", "o", "n", ".", "e", "r", "r", "o", "r", " ", "}", "}">>)) @@ (<<"i", "n", "p", "u", "t", "_", "d", "a", "t", "a">> :> StrVal(<<"{", "{", " ", "$", "j", "s", "o", "n", ".", "i", "n", "p", "u", "t", " ", "}", "}">>)))),
            None, 3, TRUE)

\* the workflow with the built nodes appended, or the error of the first
\* node whose construction fails (nothing is appended then)
Extended(w, built) ==
    IF \E k \in 1..Len(built) : ~ built[k].ok
    THEN SchemaError
    ELSE Ok([w EXCEPT !.nodes = w.nodes \o [k \in 1..Len(built) |-> built[k].val]])

\* add_logging_instrumentation with a skip test for log__ alone
add_logging_instrumentation_skip_logs_only(w) ==
    LET sel == Selected(w.nodes, 1, {<<"l", "o", "g", "_", "_">>})
    IN Extended(w, [k \in 1..Len(sel) |-> LogNode(sel[k].node, sel[k].i, w.name)])

\* WorkflowProcessor.add_logging_instrumentation
add_logging_instrumentation(w) ==
    LET sel == Selected(w.nodes, 1, {<<"l", "o", "g", "_", "_">>, <<"e", "r", "r", "o", "r", "_", "_">>})
    IN Extended(w, [k \in 1..Len(sel) |-> LogNode(sel[k].node, sel[k].i, w.name)])

add_error_handling_skip_logs(w) ==
    LET sel == Selected(w.nodes, 1, {<<"l", "o", "g", "_", "_">>, <<"e", "r", "r", "o", "r", "_", "_">>})
    IN Extended(w, [k \in 1..Len(sel) |-> ErrorNode(sel[k].node, sel[k].i, w.name)])

\* WorkflowProcessor.add_error_handling (_update_error_connections does
\* nothing)
add_error_handling(w) ==
    LET sel == Selected(w.nodes, 1, {<<"e", "r", "r", "o", "r", "_", "_">>})
    IN Extended(w, [k \in 1..Len(sel) |-> ErrorNode(sel[k].node, sel[k].i, w.name)])

\* validate_node_connections without the `continue` after a missing source
validate_node_connections_all_sources(w) ==
    LET node_ids == {w.nodes[i].id : i \in 1..Len(w.nodes)}
        dests(v) == IF v.islist THEN Range(v.items) ELSE {v.dest}
        named == {d \in UNION {UNION {dests(w.connections[s][o]) : o \in DOMAIN w.connections[s]} : s \in DOMAIN w.connections} : d.isdict /\ "node" \in DOMAIN d}
    IN {[error |-> "source not found", id |-> s] : s \in DOMAIN w.connections \ node_ids}
       \cup {[error |-> "destination not found", id |-> d.node] : d \in {x \in named : x.node # <<>> /\ x.node \notin node_ids}}

\* N8nWorkflow.validate_node_connections (models/workflow.py): the errors it
\* lists, as a set; a destination counts when it is a dict whose node entry
\* is truthy, whether the port holds a list or one destination
validate_node_connections(w) ==
    LET node_ids == {w.nodes[i].id : i \in 1..Len(w.nodes)}
        known == {s \in DOMAIN w.connections : s \in node_ids}
        dests(v) == IF v.islist THEN Range(v.items) ELSE {v.dest}
        named == {d \in UNION {UNION {dests(w.connections[s][o]) : o \in DOMAIN w.connections[s]} : s \in known} : d.isdict /\ "node" \in DOMAIN d}
    IN {[error |-> "source not found", id |-> s] : s \in DOMAIN w.connections \ node_ids}
       \cup {[error |-> "destination not found", id |-> d.node] : d \in {x \in named : x.node # <<>> /\ x.node \notin node_ids}}

\* the node combine_workflows builds from a node of a workflow after the
\* first, or the validation error
CombinedNode(w, node, x_offset) ==
    N8nNode(w.name \o <<"_">> \o node.id, w.name \o <<"_">> \o node.name, node.type, NodePosition(node.position.x + x_offset, node.position.y + 0), node.parameters, node.credentials, node.retries, node.retry_on_fail)

\* the connections combine_workflows adds for a workflow after the first:
\* source keys prefixed, destinations of a list rewritten when they are a
\* dict with a node entry, anything else copied
CombinedConnections(w) ==
    LET rewrite(dest) == IF dest.isdict /\ "node" \in DOMAIN dest THEN [dest EXCEPT !.node = w.name \o <<"_">> \o dest.node] ELSE dest
        port(v) == IF v.islist THEN [v EXCEPT !.items = [k \in 1..Len(v.items) |-> rewrite(v.items[k])]] ELSE v
        source_of(new_source_id) == CHOOSE s \in DOMAIN w.connections : w.name \o <<"_">> \o s = new_source_id
    IN IF DOMAIN w.connections = {}
       THEN EmptyDict
       ELSE [new_source_id \in {w.name \o <<"_">> \o s : s \in DOMAIN w.connections} |-> [o \in DOMAIN w.connections[source_of(new_source_id)] |-> port(w.connections[source_of(new_source_id)][o])]]

RECURSIVE CombineRest(_, _, _)
\* the loop of combine_workflows over the workflows after the first
CombineRest(combined, rest, x_offset) ==
    IF Len(rest) = 0 \/ ~ combined.ok
    THEN combined
    ELSE LET w == Head(rest)
             built == [k \in 1..Len(w.nodes) |-> CombinedNode(w, w.nodes[k], x_offset)]
         IN IF \E k \in 1..Len(built) : ~ built[k].ok
            THEN SchemaError
            ELSE CombineRest(Ok([combined.val EXCEPT !.nodes = @ \o [k \in 1..Len(built) |-> built[k].val], !.connections = CombinedConnections(w) @@ @]), Tail(rest), x_offset + 800)

combine_workflows_no_clone(workflows, combined_name) ==
    IF Len(workflows) = 0
    THEN ProcessingError("Cannot combine empty list of workflows")
    ELSE CombineRest(N8nWorkflow(combined_name, workflows[1].nodes, workflows[1].connections, workflows[1].settings, None, FALSE, <<>>), Tail(workflows), 400)

\* WorkflowProcessor.combine_workflows
combine_workflows(workflows, combined_name) ==
    IF Len(workflows) = 0
    THEN ProcessingError("Cannot combine empty list of workflows")
    ELSE IF Len(workflows) = 1
         THEN N8nWorkflow(combined_name, workflows[1].nodes, workflows[1].connections, workflows[1].settings, workflows[1].id, workflows[1].active, workflows[1].tags)
         ELSE CombineRest(N8nWorkflow(combined_name, workflows[1].nodes, workflows[1].connections, workflows[1].settings, None, FALSE, <<>>), Tail(workflows), 400)

\* isinstance(d[field], <the expected JSON type>): a document or node lists
\* under wrong_type the fields whose value has another JSON type
IsInstance(d, field) == field \notin Get(d, "wrong_type", {})

\* WorkflowProcessor._validate_node_structure without the check of the
\* node's name
_validate_node_structure_name_ignored(node, index) ==
    LET position == Get(node, "position", <<>>)
    IN {[error |-> "Missing required field", node |-> index, field |-> f] : f \in {"id", "name", "type", "position"} \ DOMAIN node}
       \cup (IF ~ IsInstance(node, "position") \/ Len(position) # 2
             THEN {[error |-> "Position must be array of two numbers", node |-> index, field |-> "position"]}
             ELSE {[error |-> "Position coordinate must be a number", node |-> index, field |-> f] : f \in {"position[0]", "position[1]"} \cap Get(node, "wrong_type", {})})

\* WorkflowProcessor._validate_node_structure for a node that is a dict:
\* the errors, as a set
_validate_node_structure(node, index) ==
    LET node_name == Get(node, "name", <<>>)
        position == Get(node, "position", <<>>)
    IN {[error |-> "Missing required field", node |-> index, field |-> f] : f \in {"id", "name", "type", "position"} \ DOMAIN node}
       \cup (IF node_name # <<>> /\ \E i \in 1..Len(node_name) : LowerChar(node_name[i]) \notin LowerChars \cup DigitChars \cup {"_"}
             THEN {[error |-> "should use snake_case convention", node |-> index, field |-> "name"]}
             ELSE {})
       \cup (IF ~ IsInstance(node, "position") \/ Len(position) # 2
             THEN {[error |-> "Position must be array of two numbers", node |-> index, field |-> "position"]}
             ELSE {[error |-> "Position coordinate must be a number", node |-> index, field |-> f] : f \in {"position[0]", "position[1]"} \cap Get(node, "wrong_type", {})})

\* WorkflowProcessor.validate_workflow_json for a document that is a dict
\* whose nodes, when a list, are dicts: the errors, as a set
validate_workflow_json(workflow_data) ==
    LET nodes == Get(workflow_data, "nodes", <<>>)
    IN {[error |-> "Missing required field", node |-> -1, field |-> f] : f \in {"name", "nodes", "connections"} \ DOMAIN workflow_data}
       \cup (IF ~ IsInstance(workflow_data, "nodes")
             THEN {[error |-> "must be an array", node |-> -1, field |-> "nodes"]}
             ELSE UNION {_validate_node_structure(nodes[i], i - 1) : i \in 1..Len(nodes)})
       \cup (IF ~ IsInstance(workflow_data, "connections")
             THEN {[error |-> "must be an object", node |-> -1, field |-> "connections"]}
             ELSE {})

\* the WorkflowProcessorError of a document with structural errors: the
\* message joins all of them
InvalidWorkflowJson(errors) ==
    [ok |-> FALSE, err |-> "WorkflowProcessorError", msg |-> "Failed to load workflow: Invalid workflow JSON", errors |-> errors]

\* WorkflowProcessor.load_workflow_from_vault with a message that names one
\* of the structural errors only
load_workflow_from_vault_first_error(vault, workflow_name) ==
    IF workflow_name \notin DOMAIN vault
    THEN ProcessingError("not found in vault")
    ELSE IF ~ vault[workflow_name].json
         THEN ProcessingError("Invalid JSON in workflow")
         ELSE IF validate_workflow_json(vault[workflow_name].data) # {}
              THEN InvalidWorkflowJson({CHOOSE e \in validate_workflow_json(vault[workflow_name].data) : TRUE})
              ELSE IF from_n8n_json(vault[workflow_name].data).ok
                   THEN from_n8n_json(vault[workflow_name].data)
                   ELSE ProcessingError("Failed to load workflow")

\* WorkflowProcessor.load_workflow_from_vault: vault maps a template name to
\* its file, a file is text that parses to a document or does not
load_workflow_from_vault(vault, workflow_name) ==
    IF workflow_name \notin DOMAIN vault
    THEN ProcessingError("not found in vault")
    ELSE IF ~ vault[workflow_name].json
         THEN ProcessingError("Invalid JSON in workflow")
         ELSE IF validate_workflow_json(vault[workflow_name].data) # {}
              THEN InvalidWorkflowJson(validate_workflow_json(vault[workflow_name].data))
              ELSE IF from_n8n_json(vault[workflow_name].data).ok
                   THEN from_n8n_json(vault[workflow_name].data)
                   ELSE ProcessingError("Failed to load workflow")

(***************************************************************************)
(* modules/assembly.py: the assembler.                                     *)
(***************************************************************************)
\* what WorkflowAssembler raises
AssemblerError == [ok |-> FALSE, err |-> "WorkflowAssemblerError"]

\* WorkflowAssembler._generate_workflow_name, from the opportunity's title
_generate_workflow_name(title) ==
    FilterChars(MapChars(MapChars(Lower(title), {" "}, "_"), {"-"}, "_"), LowerChars \cup UpperChars \cup DigitChars \cup {"_"}) \o <<"_", "a", "u", "t", "o", "m", "a", "t", "i", "o", "n">>

\* the processing steps with error handling added before the logging
\* instrumentation
PipelineStep_errors_before_logging(r, step) ==
    IF ~ r.ok
    THEN r
    ELSE CASE step = "enforce_naming" -> enforce_naming_conventions(r.val)
           [] step = "inject_retries" -> inject_retry_logic(r.val)
           [] step = "inject_idempotency" -> add_idempotency_keys(r.val)
           [] step = "inject_logging" -> add_error_handling(r.val)
           [] step = "inject_error_handling" -> add_logging_instrumentation(r.val)

\* one statement of the processing pipeline inside the try block: it runs on
\* the workflow so far, unless an earlier statement raised
PipelineStep(r, step) ==
    IF ~ r.ok
    THEN r
    ELSE CASE step = "enforce_naming" -> enforce_naming_conventions(r.val)
           [] step = "inject_retries" -> inject_retry_logic(r.val)
           [] step = "inject_idempotency" -> add_idempotency_keys(r.val)
           [] step = "inject_logging" -> add_logging_instrumentation(r.val)
           [] step = "inject_error_handling" -> add_error_handling(r.val)

\* WorkflowAssembler.assemble_workflows without the except clause: what the
\* try block raises leaves as it is
assemble_workflows_unwrapped(vault, workflow_names, title) ==
    LET loaded == [k \in 1..Len(workflow_names) |-> load_workflow_from_vault(vault, workflow_names[k])]
        combined == IF \E k \in 1..Len(loaded) : ~ loaded[k].ok
                    THEN ProcessingError("Failed to load workflow")
                    ELSE combine_workflows([k \in 1..Len(loaded) |-> loaded[k].val], _generate_workflow_name(title))
    IN PipelineStep(PipelineStep(PipelineStep(PipelineStep(PipelineStep(combined, "enforce_naming"), "inject_retries"), "inject_idempotency"), "inject_logging"), "inject_error_handling")

\* WorkflowAssembler.assemble_workflows: each statement of the try block runs
\* on the value so far unless an earlier one raised; whatever is raised
\* leaves as a WorkflowAssemblerError
assemble_workflows(vault, workflow_names, title) ==
    LET loaded == [k \in 1..Len(workflow_names) |-> load_workflow_from_vault(vault, workflow_names[k])]
        combined == IF \E k \in 1..Len(loaded) : ~ loaded[k].ok
                    THEN ProcessingError("Failed to load workflow")
                    ELSE combine_workflows([k \in 1..Len(loaded) |-> loaded[k].val], _generate_workflow_name(title))
        processed == PipelineStep(PipelineStep(PipelineStep(PipelineStep(PipelineStep(combined, "enforce_naming"), "inject_retries"), "inject_idempotency"), "inject_logging"), "inject_error_handling")
    IN IF processed.ok THEN processed ELSE AssemblerError

\* N8nProcessor.process_workflow(workflow_name): the workflow is loaded and
\* the five steps run in order; whatever a statement raises leaves as it is
process_workflow(vault, workflow_name) ==
    PipelineStep(PipelineStep(PipelineStep(PipelineStep(PipelineStep(load_workflow_from_vault(vault, workflow_name), "enforce_naming"), "inject_retries"), "inject_idempotency"), "inject_logging"), "inject_error_handling")

(***************************************************************************)
(* modules/validation.py: the validator.                                   *)
(***************************************************************************)
\* ValidationResult(passed, level, message); a message is its fixed text
\* and the values formatted into it
ValidationResult(passed, level, message) == [passed |-> passed, level |-> level, message |-> message]

Message(text, args) == [text |-> text, args |-> args]

\* WorkflowValidator._load_validation_rules
validation_rules ==
    [max_nodes |-> 50, max_connections_per_node |-> 10, required_error_handling |-> TRUE, required_retry_logic |-> TRUE, forbidden_hardcoded_secrets |-> TRUE, required_env_vars |-> {<<"N", "O", "T", "I", "O", "N", "_", "T", "O", "K", "E", "N">>}, max_execution_time_estimate |-> 300]

RECURSIVE ParamTexts(_)
\* the strings json.dumps(parameters) writes between double quotes: the
\* keys and the string values, at every depth.  What the validator searches
\* for holds no double quote, colon, comma or brace-quote pair, so it is in
\* the dump exactly when it is in one of these strings.
ParamTexts(d) ==
    DOMAIN d \cup UNION {IF "s" \in DOMAIN d[k] THEN {d[k].s} ELSE IF "d" \in DOMAIN d[k] THEN ParamTexts(d[k].d) ELSE {} : k \in DOMAIN d}

\* sub in json.dumps(node.parameters)
InParams(node, sub) ==
    \E t \in ParamTexts(node.parameters) : Contains(t, sub)

RECURSIVE Concat(_)
\* the concatenation of a sequence of lists
Concat(ss) ==
    IF Len(ss) = 0 THEN <<>> ELSE Head(ss) \o Concat(Tail(ss))

\* WorkflowValidator._find_hardcoded_secrets
_find_hardcoded_secrets(workflow) ==
    LET found(node, word) == IF InParams(node, word) /\ ~ InParams(node, <<"{", "{">>) THEN <<[secret |-> word, node |-> node.name]>> ELSE <<>>
    IN Concat([i \in 1..Len(workflow.nodes) |-> found(workflow.nodes[i], <<"p", "a", "s", "s", "w", "o", "r", "d">>) \o found(workflow.nodes[i], <<"t", "o", "k", "e", "n">>)])

\* the first position from i on whose character is not in D
SkipChars(s, i, D) ==
    CHOOSE j \in i..(Len(s) + 1) : (\A k \in i..(j - 1) : s[k] \in D) /\ (j = Len(s) + 1 \/ s[j] \notin D)

\* s holds lit at position i
At(s, i, lit) ==
    i + Len(lit) - 1 <= Len(s) /\ SubSeq(s, i, i + Len(lit) - 1) = lit

EnvMatch_bare(s, i) ==
    IF ~ At(s, i, <<"{", "{">>)
    THEN <<>>
    ELSE LET b == SkipChars(s, i + 2, WhitespaceChars)
         IN IF ~ At(s, b, <<"$", "e", "n", "v", ".">>)
            THEN <<>>
            ELSE LET e == SkipChars(s, b + 5, UpperChars \cup {"_"})
                 IN IF e > b + 5 /\ At(s, SkipChars(s, e, WhitespaceChars), <<"}", "}">>)
                    THEN SubSeq(s, b + 5, e - 1)
                    ELSE <<>>

\* the group captured when \$\{\{\s*\$env\.([A-Z_]+)\s*\}\} matches s at
\* position i, or the empty string when it does not match there
EnvMatch(s, i) ==
    IF ~ At(s, i, <<"$", "{", "{">>)
    THEN <<>>
    ELSE LET b == SkipChars(s, i + 3, WhitespaceChars)
         IN IF ~ At(s, b, <<"$", "e", "n", "v", ".">>)
            THEN <<>>
            ELSE LET e == SkipChars(s, b + 5, UpperChars \cup {"_"})
                 IN IF e > b + 5 /\ At(s, SkipChars(s, e, WhitespaceChars), <<"}", "}">>)
                    THEN SubSeq(s, b + 5, e - 1)
                    ELSE <<>>

\* WorkflowValidator._extract_env_variables
_extract_env_variables(workflow) ==
    UNION {UNION {{EnvMatch(t, i) : i \in 1..Len(t)} : t \in ParamTexts(workflow.nodes[n].parameters)} : n \in 1..Len(workflow.nodes)} \ {<<>>}

\* WorkflowValidator._estimate_execution_time (2.0 seconds a node)
_estimate_execution_time(workflow) ==
    Len(workflow.nodes) * 2

\* WorkflowValidator._identify_integrations
_identify_integrations(workflow) ==
    LET service(type) == CASE type = K_slack -> {"Slack"} [] type = K_hubspot -> {"HubSpot"} [] type = K_notion -> {"Notion"} [] type = K_gmail -> {"Gmail"} [] OTHER -> {}
    IN UNION {service(workflow.nodes[i].type) : i \in 1..Len(workflow.nodes)}

\* _validate_json_schema with a node count over the limit reported as a
\* passed result
_validate_json_schema_over_limit_passes(workflow) ==
    <<IF workflow.name = <<>>
      THEN ValidationResult(FALSE, "schema", Message("Workflow name is required", <<>>))
      ELSE ValidationResult(TRUE, "schema", Message("Workflow name is valid", <<>>)),
      IF Len(workflow.nodes) = 0
      THEN ValidationResult(FALSE, "schema", Message("Workflow must contain at least one node", <<>>))
      ELSE IF Len(workflow.nodes) > validation_rules.max_nodes
           THEN ValidationResult(TRUE, "schema", Message("Too many nodes", <<Len(workflow.nodes)>>))
           ELSE ValidationResult(TRUE, "schema", Message("Node count is acceptable", <<Len(workflow.nodes)>>)),
      IF validate_node_connections(workflow) # {}
      THEN ValidationResult(FALSE, "schema", Message("Connection errors", validate_node_connections(workflow)))
      ELSE ValidationResult(TRUE, "schema", Message("All node connections are valid", <<>>))>>

\* WorkflowValidator._validate_json_schema
_validate_json_schema(workflow) ==
    <<IF workflow.name = <<>>
      THEN ValidationResult(FALSE, "schema", Message("Workflow name is required", <<>>))
      ELSE ValidationResult(TRUE, "schema", Message("Workflow name is valid", <<>>)),
      IF Len(workflow.nodes) = 0
      THEN ValidationResult(FALSE, "schema", Message("Workflow must contain at least one node", <<>>))
      ELSE IF Len(workflow.nodes) > validation_rules.max_nodes
           THEN ValidationResult(FALSE, "schema", Message("Too many nodes", <<Len(workflow.nodes)>>))
           ELSE ValidationResult(TRUE, "schema", Message("Node count is acceptable", <<Len(workflow.nodes)>>)),
      IF validate_node_connections(workflow) # {}
      THEN ValidationResult(FALSE, "schema", Message("Connection errors", validate_node_connections(workflow)))
      ELSE ValidationResult(TRUE, "schema", Message("All node connections are valid", <<>>))>>

_validate_business_logic_any_shadow(workflow) ==
    LET error_nodes == {i \in 1..Len(workflow.nodes) : StartsWith(workflow.nodes[i].name, <<"e", "r", "r", "o", "r", "_", "_">>) \/ StartsWith(workflow.nodes[i].name, <<"l", "o", "g", "_", "_">>)}
        nodes_with_retries == {i \in 1..Len(workflow.nodes) : workflow.nodes[i].retries > 0}
    IN <<IF validation_rules.required_error_handling /\ error_nodes = {}
         THEN ValidationResult(FALSE, "logic", Message("Error handling nodes are missing", <<>>))
         ELSE ValidationResult(TRUE, "logic", Message("Error handling implemented", <<Cardinality(error_nodes)>>)),
         IF validation_rules.required_retry_logic /\ Cardinality(nodes_with_retries) = 0
         THEN ValidationResult(FALSE, "logic", Message("Retry logic is missing from all nodes", <<>>))
         ELSE ValidationResult(TRUE, "logic", Message("Retry logic implemented", <<Cardinality(nodes_with_retries)>>))>>

\* WorkflowValidator._validate_business_logic
_validate_business_logic(workflow) ==
    LET error_nodes == {i \in 1..Len(workflow.nodes) : StartsWith(workflow.nodes[i].name, <<"e", "r", "r", "o", "r", "_", "_">>)}
        nodes_with_retries == {i \in 1..Len(workflow.nodes) : workflow.nodes[i].retries > 0}
    IN <<IF validation_rules.required_error_handling /\ error_nodes = {}
         THEN ValidationResult(FALSE, "logic", Message("Error handling nodes are missing", <<>>))
         ELSE ValidationResult(TRUE, "logic", Message("Error handling implemented", <<Cardinality(error_nodes)>>)),
         IF validation_rules.required_retry_logic /\ Cardinality(nodes_with_retries) = 0
         THEN ValidationResult(FALSE, "logic", Message("Retry logic is missing from all nodes", <<>>))
         ELSE ValidationResult(TRUE, "logic", Message("Retry logic implemented", <<Cardinality(nodes_with_retries)>>))>>

_validate_security_env_optional(workflow) ==
    LET hardcoded_secrets == _find_hardcoded_secrets(workflow)
    IN <<IF Len(hardcoded_secrets) > 0
         THEN ValidationResult(FALSE, "security", Message("Hardcoded secrets found", hardcoded_secrets))
         ELSE ValidationResult(TRUE, "security", Message("No hardcoded secrets detected", <<>>)),
         ValidationResult(TRUE, "security", Message("All required environment variables are referenced", <<>>))>>

\* WorkflowValidator._validate_security
_validate_security(workflow) ==
    LET hardcoded_secrets == _find_hardcoded_secrets(workflow)
        missing_vars == validation_rules.required_env_vars \ _extract_env_variables(workflow)
    IN <<IF Len(hardcoded_secrets) > 0
         THEN ValidationResult(FALSE, "security", Message("Hardcoded secrets found", hardcoded_secrets))
         ELSE ValidationResult(TRUE, "security", Message("No hardcoded secrets detected", <<>>)),
         IF missing_vars # {}
         THEN ValidationResult(FALSE, "security", Message("Missing required environment variables", missing_vars))
         ELSE ValidationResult(TRUE, "security", Message("All required environment variables are referenced", <<>>))>>

\* WorkflowValidator._validate_performance
_validate_performance(workflow) ==
    <<IF _estimate_execution_time(workflow) > validation_rules.max_execution_time_estimate
      THEN ValidationResult(FALSE, "performance", Message("Estimated execution time too high", <<_estimate_execution_time(workflow)>>))
      ELSE ValidationResult(TRUE, "performance", Message("Estimated execution time acceptable", <<_estimate_execution_time(workflow)>>))>>

\* WorkflowValidator._validate_integrations
_validate_integrations(workflow) ==
    <<IF _identify_integrations(workflow) # {}
      THEN ValidationResult(TRUE, "integration", Message("Integrations identified", _identify_integrations(workflow)))
      ELSE ValidationResult(TRUE, "integration", Message("No external integrations detected", <<>>))>>

\* WorkflowValidator.validate_workflow
validate_workflow(workflow) ==
    _validate_json_schema(workflow) \o _validate_business_logic(workflow) \o _validate_security(workflow) \o _validate_performance(workflow) \o _validate_integrations(workflow)

generate_validation_report_lenient(results_list) ==
    LET total_checks == Len(results_list)
        passed_checks == Cardinality({i \in 1..Len(results_list) : results_list[i].passed})
        failed_checks == total_checks - passed_checks
        at(level) == SelectSeq(results_list, LAMBDA r : r.level = level)
    IN [summary |-> [total_checks |-> total_checks, passed |-> passed_checks, failed |-> failed_checks,
                     success_rate |-> IF total_checks > 0 THEN [num |-> passed_checks, den |-> total_checks] ELSE [num |-> 0, den |-> 1],
                     overall_status |-> IF failed_checks <= passed_checks THEN "PASS" ELSE "FAIL"],
        by_level |-> [level \in {results_list[i].level : i \in 1..Len(results_list)} |->
                        [passed |-> Len(SelectSeq(at(level), LAMBDA r : r.passed)),
                         failed |-> Len(SelectSeq(at(level), LAMBDA r : ~ r.passed)),
                         messages |-> [k \in 1..Len(at(level)) |-> [status |-> IF at(level)[k].passed THEN "PASS" ELSE "FAIL", message |-> at(level)[k].message]]]]]

\* WorkflowValidator.generate_validation_report, without the timestamps;
\* success_rate is the fraction num/den
generate_validation_report(results_list) ==
    LET total_checks == Len(results_list)
        passed_checks == Cardinality({i \in 1..Len(results_list) : results_list[i].passed})
        failed_checks == total_checks - passed_checks
        at(level) == SelectSeq(results_list, LAMBDA r : r.level = level)
    IN [summary |-> [total_checks |-> total_checks, passed |-> passed_checks, failed |-> failed_checks,
                     success_rate |-> IF total_checks > 0 THEN [num |-> passed_checks, den |-> total_checks] ELSE [num |-> 0, den |-> 1],
                     overall_status |-> IF failed_checks = 0 THEN "PASS" ELSE "FAIL"],
        by_level |-> [level \in {results_list[i].level : i \in 1..Len(results_list)} |->
                        [passed |-> Len(SelectSeq(at(level), LAMBDA r : r.passed)),
                         failed |-> Len(SelectSeq(at(level), LAMBDA r : ~ r.passed)),
                         messages |-> [k \in 1..Len(at(level)) |-> [status |-> IF at(level)[k].passed THEN "PASS" ELSE "FAIL", message |-> at(level)[k].message]]]]]

(***************************************************************************)
(* Values the model draws its inputs from.                                 *)
(***************************************************************************)
S_n1 == <<"n", "1">>

S_n2 == <<"n", "2">>

S_path == <<"p", "a", "t", "h">>

S_hook == <<"/", "h", "o", "o", "k">>

S_channel == <<"c", "h", "a", "n", "n", "e", "l">>

S_sales == <<"#", "s", "a", "l", "e", "s">>

S_main == "main"

P_webhook == (S_path :> StrVal(S_hook))

P_slack == (S_channel :> StrVal(S_sales))

\* a credentials reference
Cred_slack == DictVal([slackApi |-> "1"])

\* one destination of a connection: a dict with a node key, a dict without
\* one, or an element that is no dict (n8n's nested list)
DestTo(id) == [isdict |-> TRUE, node |-> id, type |-> "main", index |-> 0]

DestNoNode == [isdict |-> TRUE]

DestNotDict == [isdict |-> FALSE]

\* the value of one output port: a list of destinations, or one destination
\* that is not wrapped in a list
DestList(items) == [islist |-> TRUE, items |-> items]

DestSingle(dest) == [islist |-> FALSE, dest |-> dest]

\* the characters input names are made of: lowercase, digit, underscore,
\* uppercase, space, hyphen, punctuation
NameChars == {"a", "1", "_", "A", " ", "-", "!"}

NodeNameInputs == StringsUpTo(NameChars, MaxNameLen)

WfNameInputs == StringsUpTo(NameChars, MaxWfNameLen)

RetriesInputs == 0..MaxRetriesIn

\* nodes as the constructor builds them (every name valid, retries 3)
ModelNodes ==
    {[id |-> S_n1, name |-> <<"a">>, type |-> K_webhook, position |-> NodePosition(0, 0), parameters |-> EmptyDict, credentials |-> None, retries |-> 3, retry_on_fail |-> TRUE],
     [id |-> S_n1, name |-> <<"a", "_", "1">>, type |-> K_webhook, position |-> NodePosition(100, 200), parameters |-> P_webhook, credentials |-> DictVal(EmptyDict), retries |-> 3, retry_on_fail |-> TRUE],
     [id |-> S_n2, name |-> <<"b">>, type |-> K_slack, position |-> NodePosition(300, 100), parameters |-> P_slack, credentials |-> Cred_slack, retries |-> 3, retry_on_fail |-> TRUE],
     [id |-> S_n2, name |-> <<>>, type |-> K_set, position |-> NodePosition(5, 7), parameters |-> EmptyDict, credentials |-> None, retries |-> 3, retry_on_fail |-> FALSE]}

ModelConnections ==
    {EmptyDict,
     (S_n1 :> (S_main :> DestList(<<DestTo(S_n2)>>))),
     (S_n1 :> (S_main :> DestList(<<DestTo(S_n2), DestTo(S_n1)>>))) @@ (S_n2 :> (S_main :> DestSingle(DestTo(S_n1))))}

ModelWfNames ==
    {<<>>, <<"a", "_", "b">>, <<"A", " ", "-", "b", "!">>, <<"_", "a", "_", "_", "1">>}

ModelTags ==
    {<<>>, <<"lead", "test">>}

ModelWfIds ==
    {None, StrVal(<<>>), StrVal(<<"7">>)}

(***************************************************************************)
(* The model layer as a caller sees it.  A behaviour is one call: the      *)
(* initial state holds the call and its arguments (call), the action of    *)
(* that call computes its outcome (ret).                                   *)
(***************************************************************************)
\* the calls N8nNode(id, name, type, position, retries=..., retry_on_fail=...)
NodeCalls ==
    {[op |-> "N8nNode", name |-> name, retries |-> retries, retry_on_fail |-> rof] : name \in NodeNameInputs, retries \in RetriesInputs, rof \in BOOLEAN}

\* the calls N8nWorkflow(name, nodes, connections={})
WorkflowCalls ==
    {[op |-> "N8nWorkflow", name |-> name, nodes |-> nodes] : name \in WfNameInputs, nodes \in SeqsUpTo({n \in ModelNodes : n.credentials = None}, MaxNodes)}

\* the workflows the constructor builds from the sample values
ModelWorkflows ==
    {N8nWorkflow(name, nodes, conns, EmptyDict, id, active, tags).val : name \in ModelWfNames, nodes \in SeqsUpTo(ModelNodes, MaxNodes) \ {<<>>}, conns \in ModelConnections, id \in ModelWfIds, active \in BOOLEAN, tags \in ModelTags}

\* the calls N8nWorkflow.from_n8n_json(w.to_n8n_json())
RoundTripCalls ==
    {[op |-> "round_trip", w |-> w] : w \in ModelWorkflows}

InitModel ==
    /\ call \in NodeCalls \cup WorkflowCalls \cup RoundTripCalls
    /\ ret = None
    /\ wf = None
    /\ prev = None
    /\ ops = <<>>
    /\ asm = None
    /\ results = None
    /\ report = None

NewNode ==
    /\ call.op = "N8nNode"
    /\ ret = None
    /\ ret' = N8nNode(S_n1, call.name, K_webhook, NodePosition(0, 0), EmptyDict, None, call.retries, call.retry_on_fail)
    /\ UNCHANGED <<call, wf, prev, ops, asm, results, report>>

NewWorkflow ==
    /\ call.op = "N8nWorkflow"
    /\ ret = None
    /\ ret' = N8nWorkflow(call.name, call.nodes, EmptyDict, EmptyDict, None, FALSE, <<>>)
    /\ UNCHANGED <<call, wf, prev, ops, asm, results, report>>

RoundTrip ==
    /\ call.op = "round_trip"
    /\ ret = None
    /\ ret' = from_n8n_json(to_n8n_json(call.w))
    /\ UNCHANGED <<call, wf, prev, ops, asm, results, report>>

NextModel ==
    \/ NewNode
    \/ NewWorkflow
    \/ RoundTrip

SpecModel == InitModel /\ [][NextModel]_vars

(***************************************************************************)
(* Claims about the model layer (checked under SpecModel).                 *)
(***************************************************************************)
SnakeChars == LowerChars \cup DigitChars \cup {"_"}

\* C6: constructing a Node succeeds exactly when its name holds only
\* lowercase letters, digits and underscores and its retries value is 3,
\* whatever retry_on_fail is; otherwise it fails with the schema error.
C6_NodeConstruction ==
    (call.op = "N8nNode" /\ ret # None) =>
        /\ ret.ok <=> ((\A i \in 1..Len(call.name) : call.name[i] \in SnakeChars) /\ call.retries = 3)
        /\ ret.ok => (ret.val.name = call.name /\ ret.val.retries = 3 /\ ret.val.retry_on_fail = call.retry_on_fail)
        /\ ~ ret.ok => ret = SchemaError

\* a node with a two-character snake_case name, retries 3 and retry_on_fail
\* False was constructed
C6_Witness ==
    /\ call.op = "N8nNode"
    /\ ret # None
    /\ ret.ok
    /\ Len(call.name) = 2
    /\ call.retry_on_fail = FALSE

\* a name is normalized: lowercase letters, digits and single underscores,
\* none leading or trailing
IsNormalized(s) ==
    /\ \A i \in 1..Len(s) : s[i] \in SnakeChars
    /\ \A i \in 1..(Len(s) - 1) : ~ (s[i] = "_" /\ s[i + 1] = "_")
    /\ s # <<>> => (s[1] # "_" /\ s[Len(s)] # "_")

\* C7: constructing a Workflow with no node fails; with at least one node it
\* succeeds whatever the name, and the stored name is normalized.
C7_WorkflowConstruction ==
    (call.op = "N8nWorkflow" /\ ret # None) =>
        /\ call.nodes = <<>> => ret = SchemaError
        /\ call.nodes # <<>> => (ret.ok /\ IsNormalized(ret.val.name) /\ ret.val.nodes = call.nodes)

\* a workflow was constructed from a name that was not normalized
C7_Witness ==
    /\ call.op = "N8nWorkflow"
    /\ ret # None
    /\ ret.ok
    /\ ~ IsNormalized(call.name)
    /\ Len(ret.val.name) = 2
    /\ ret.val.name # call.name

\* C8: the wire round trip keeps the workflow name, the nodes in order with
\* their ids, names, kinds, positions and parameters, the connections, the
\* active flag and the tags.
C8_RoundTrip ==
    (call.op = "round_trip" /\ ret # None) =>
        /\ ret.ok
        /\ ret.val.name = call.w.name
        /\ Len(ret.val.nodes) = Len(call.w.nodes)
        /\ \A i \in 1..Len(call.w.nodes) :
              /\ ret.val.nodes[i].id = call.w.nodes[i].id
              /\ ret.val.nodes[i].name = call.w.nodes[i].name
              /\ ret.val.nodes[i].type = call.w.nodes[i].type
              /\ ret.val.nodes[i].position = call.w.nodes[i].position
              /\ ret.val.nodes[i].parameters = call.w.nodes[i].parameters
        /\ ret.val.connections = call.w.connections
        /\ ret.val.active = call.w.active
        /\ ret.val.tags = call.w.tags

\* a two-node workflow with connections, tags and distinct coordinates made
\* the round trip, and came back differing only in fields the claim does not
\* list (an empty credentials dict comes back as None)
C8_Witness ==
    /\ call.op = "round_trip"
    /\ ret # None
    /\ ret.ok
    /\ Len(call.w.nodes) = 2
    /\ call.w.connections # EmptyDict
    /\ call.w.tags # <<>>
    /\ \E i \in 1..2 : call.w.nodes[i].position.x # call.w.nodes[i].position.y
    /\ ret.val # call.w

(***************************************************************************)
(* The processor's in-place operations on one workflow object: wf is the   *)
(* object, ops the operations applied to it so far, prev the object as it  *)
(* was before the last of them and ret that operation's outcome.           *)
(***************************************************************************)
\* most operations applied to one workflow object
MaxOps == 3
\* most nodes a workflow object grows to
MaxProcNodes == 8

\* node names a caller may hold: valid ones, names that already carry an
\* integration, log__ or error__ prefix, and names assigned without
\* validation (tests/test_integrations.py sets "Invalid Node Name!")
ProcNames ==
    {<<"a">>, <<"a", "_", "1">>, <<"A", " ", "b", "!">>, <<"m", "y", "-", "h", "o", "o", "k">>, <<"s", "l", "a", "c", "k", "_", "x">>, <<"s", "l", "a", "c", "k", "b", "o", "t">>, <<"w", "e", "b", "h", "o", "o", "k", "_", "a">>, <<"n", "o", "t", "i", "o", "n">>, <<"l", "o", "g", "_", "_", "a">>, <<"e", "r", "r", "o", "r", "_", "_", "a">>, <<>>, <<"_", "_">>}

ProcKinds == {K_webhook, K_slack, K_hubspot, K_salesforce, K_gmail, K_notion, K_set}

\* nodes that differ in name and kind
NamingNodes ==
    {[id |-> S_n1, name |-> name, type |-> type, position |-> NodePosition(100, 100), parameters |-> EmptyDict, credentials |-> None, retries |-> 3, retry_on_fail |-> TRUE] : name \in ProcNames, type \in ProcKinds}

\* nodes that differ in retry fields and parameters (node.retries = 0 is
\* assigned, as tests/test_integrations.py does)
RetryNodes ==
    {[id |-> S_n2, name |-> <<"b">>, type |-> K_set, position |-> NodePosition(300, 100), parameters |-> params, credentials |-> None, retries |-> rc[1], retry_on_fail |-> rc[2]] : params \in {EmptyDict, P_slack, (<<"r", "e", "t", "r", "y", "O", "n", "F", "a", "i", "l">> :> BoolVal(FALSE))}, rc \in {<<3, TRUE>>, <<3, FALSE>>, <<0, FALSE>>, <<0, TRUE>>}}

\* the workflow objects the operations start from, some with a connection
\* between their two nodes
ProcWorkflows ==
    {[name |-> name, nodes |-> nodes, connections |-> EmptyDict, settings |-> EmptyDict, id |-> None, active |-> FALSE, tags |-> <<>>] : name \in {<<"f", "l", "o", "w">>, <<"M", "y", " ", "F", "l", "o", "w", "!">>}, nodes \in {<<n>> : n \in NamingNodes \cup RetryNodes} \cup {<<n, m>> : n \in {x \in NamingNodes : x.name \in {<<"a">>, <<"l", "o", "g", "_", "_", "a">>} /\ x.type \in {K_webhook, K_slack}}, m \in RetryNodes}}
    \cup {[name |-> <<"f", "l", "o", "w">>, nodes |-> <<n, m>>, connections |-> (S_n1 :> (S_main :> DestList(<<DestTo(S_n2)>>))), settings |-> EmptyDict, id |-> None, active |-> FALSE, tags |-> <<>>] : n \in {x \in NamingNodes : x.name \in {<<"a">>, <<"l", "o", "g", "_", "_", "a">>, <<"e", "r", "r", "o", "r", "_", "_", "a">>} /\ x.type = K_webhook}, m \in {x \in RetryNodes : x.parameters = EmptyDict}}

InitProc ==
    /\ wf \in ProcWorkflows
    /\ prev = None
    /\ ops = <<>>
    /\ ret = None
    /\ call = None
    /\ asm = None
    /\ results = None
    /\ report = None

\* one operation applied to the workflow object: r is its outcome
ApplyOp(opname, r) ==
    /\ Len(ops) < MaxOps
    /\ r.ok => Len(r.val.nodes) <= MaxProcNodes
    /\ ops' = Append(ops, opname)
    /\ prev' = wf
    /\ ret' = r
    /\ wf' = IF r.ok THEN r.val ELSE wf
    /\ UNCHANGED <<call, asm, results, report>>

EnforceNaming ==
    ApplyOp("enforce_naming", enforce_naming_conventions(wf))

InjectRetries ==
    ApplyOp("inject_retries", inject_retry_logic(wf))

InjectIdempotency ==
    ApplyOp("inject_idempotency", add_idempotency_keys(wf))

InjectLogging ==
    ApplyOp("inject_logging", add_logging_instrumentation(wf))

InjectErrorHandling ==
    ApplyOp("inject_error_handling", add_error_handling(wf))

NextProc ==
    \/ EnforceNaming
    \/ InjectRetries
    \/ InjectIdempotency
    \/ InjectLogging
    \/ InjectErrorHandling

SpecProc == InitProc /\ [][NextProc]_vars

(***************************************************************************)
(* Claims about the in-place operations (checked under SpecProc).          *)
(***************************************************************************)
\* the last two operations were both op
TwiceInSuccession(op) ==
    /\ Len(ops) >= 2
    /\ ops[Len(ops)] = op
    /\ ops[Len(ops) - 1] = op

HasKnownPrefix(name) ==
    \E p \in {<<"s", "l", "a", "c", "k">>, <<"h", "u", "b", "s", "p", "o", "t">>, <<"s", "a", "l", "e", "s", "f", "o", "r", "c", "e">>, <<"g", "m", "a", "i", "l">>, <<"n", "o", "t", "i", "o", "n">>} : StartsWith(name, p)

Compliant(node) ==
    node.retries = 3 /\ node.retry_on_fail

\* C9: after inject_retries every node has retries 3 and retry_on_fail True;
\* a node that was compliant is unchanged, parameters included; a node that
\* was not and had no retryOnFail parameter gains retryOnFail=True,
\* maxTries=3 and waitBetweenTries=200 and keeps its other parameters.
C9_InjectRetries ==
    (ops # <<>> /\ ops[Len(ops)] = "inject_retries") =>
        /\ ret.ok
        /\ Len(wf.nodes) = Len(prev.nodes)
        /\ \A i \in 1..Len(wf.nodes) :
              /\ wf.nodes[i].retries = 3
              /\ wf.nodes[i].retry_on_fail = TRUE
              /\ Compliant(prev.nodes[i]) => wf.nodes[i] = prev.nodes[i]
              /\ (~ Compliant(prev.nodes[i]) /\ <<"r", "e", "t", "r", "y", "O", "n", "F", "a", "i", "l">> \notin DOMAIN prev.nodes[i].parameters) =>
                    /\ DOMAIN wf.nodes[i].parameters = DOMAIN prev.nodes[i].parameters \cup {<<"r", "e", "t", "r", "y", "O", "n", "F", "a", "i", "l">>, <<"m", "a", "x", "T", "r", "i", "e", "s">>, <<"w", "a", "i", "t", "B", "e", "t", "w", "e", "e", "n", "T", "r", "i", "e", "s">>}
                    /\ wf.nodes[i].parameters[<<"r", "e", "t", "r", "y", "O", "n", "F", "a", "i", "l">>] = BoolVal(TRUE)
                    /\ wf.nodes[i].parameters[<<"m", "a", "x", "T", "r", "i", "e", "s">>] = NumVal(3)
                    /\ wf.nodes[i].parameters[<<"w", "a", "i", "t", "B", "e", "t", "w", "e", "e", "n", "T", "r", "i", "e", "s">>] = NumVal(200)
                    /\ \A k \in DOMAIN prev.nodes[i].parameters : wf.nodes[i].parameters[k] = prev.nodes[i].parameters[k]

\* inject_retries ran on a workflow that held a compliant node and a node
\* with retry_on_fail False, parameters and no retryOnFail parameter
C9_Witness ==
    /\ ops = <<"inject_retries">>
    /\ Len(prev.nodes) = 2
    /\ Compliant(prev.nodes[1])
    /\ ~ Compliant(prev.nodes[2])
    /\ prev.nodes[2].parameters = P_slack
    /\ wf # prev

(***************************************************************************)
(* Combining, assembling and validating as a caller sees them.  A          *)
(* behaviour is one call (call) and what follows it: combine and assemble  *)
(* leave their outcome in ret (assemble also in asm) and the workflow they *)
(* return in wf; the validator then runs on wf (results) and its report is *)
(* generated from the results (report).                                    *)
(***************************************************************************)
\* most workflows handed to combine, most template names handed to assemble
MaxCombine == 2

\* workflows handed to combine_workflows: one or two nodes, connections
\* that are lists or one destination, with and without id, tags and active;
\* one workflow has a node id that starts with another workflow's name
CombineWorkflows ==
    {N8nWorkflow(name, nodes, conns, EmptyDict, None, FALSE, <<>>).val : name \in {<<"a", "_", "b">>, <<"_", "a", "_", "_", "1">>}, nodes \in {<<n>> : n \in {x \in ModelNodes : x.name = <<"a">>}} \cup {<<n, m>> : n \in {x \in ModelNodes : x.name = <<"a", "_", "1">>}, m \in {x \in ModelNodes : x.name = <<"b">>}}, conns \in ModelConnections \cup {(S_n1 :> (S_main :> DestSingle(DestTo(S_n2))))}}
    \cup {N8nWorkflow(<<"w", " ", "7">>, <<n>>, EmptyDict, EmptyDict, StrVal(<<"7">>), TRUE, <<"lead">>).val : n \in {x \in ModelNodes : x.name = <<"b">>}}
    \cup {N8nWorkflow(<<"f", "i", "r", "s", "t">>, <<[id |-> <<"a", "_", "b", "_", "n", "1">>, name |-> <<"a">>, type |-> K_webhook, position |-> NodePosition(0, 0), parameters |-> EmptyDict, credentials |-> None, retries |-> 3, retry_on_fail |-> TRUE]>>, conns, EmptyDict, None, FALSE, <<>>).val : conns \in {EmptyDict, (<<"a", "_", "b", "_", "n", "1">> :> (S_main :> DestList(<<DestTo(<<"a", "_", "b", "_", "n", "1">>)>>)))}}

CombineCalls ==
    {[op |-> "combine", workflows |-> ws, combined_name |-> name] : ws \in SeqsUpTo(CombineWorkflows, MaxCombine), name \in {<<"c", "o", "m", "b", "i", "n", "e", "d", "_", "w", "o", "r", "k", "f", "l", "o", "w">>, <<"L", "e", "a", "d", " ", " ", "C", "a", "p", "t", "u", "r", "e">>}}

\* a vault file that parses to a document
JsonFile(data) == [json |-> TRUE, data |-> data]

\* a template document with one node
Template(name, id, node_name, type, parameters, connections) ==
    [name |-> name, nodes |-> <<[id |-> id, name |-> node_name, type |-> type, position |-> <<100, 200>>, parameters |-> parameters]>>, connections |-> connections, settings |-> EmptyDict, active |-> FALSE, tags |-> <<>>]

\* the parameters of template B's slack node: plain, referencing the
\* required environment variable, holding a literal token, holding a
\* literal api_key
SlackParams ==
    {P_slack,
     P_slack @@ (<<"t", "e", "x", "t">> :> StrVal(<<"$", "{", "{", " ", "$", "e", "n", "v", ".", "N", "O", "T", "I", "O", "N", "_", "T", "O", "K", "E", "N", " ", "}", "}">>)),
     P_slack @@ (<<"t", "o", "k", "e", "n">> :> StrVal(<<"x", "o", "x", "b">>)),
     P_slack @@ (<<"a", "p", "i", "_", "k", "e", "y">> :> StrVal(<<"h", "a", "r", "d", "c", "o", "d", "e", "d", "_", "k", "e", "y">>))}

\* vaults: A holds one webhook node, B one slack node, D does not parse, E
\* has a node without type whose name is not snake_case, F a node whose
\* name has capitals, G no node; there is no C
Vaults ==
    {[A |-> JsonFile(Template(<<"A">>, S_n2, <<"h", "o", "o", "k">>, K_webhook, P_webhook, EmptyDict)),
      B |-> JsonFile(Template(<<"B">>, S_n1, <<"s", "e", "n", "d">>, K_slack, params, conns)),
      D |-> [json |-> FALSE],
      E |-> JsonFile([name |-> <<"E">>, nodes |-> <<[id |-> S_n1, name |-> <<"B", "a", "d", " ", "N", "a", "m", "e", "!">>, position |-> <<0, 0>>]>>, connections |-> EmptyDict]),
      F |-> JsonFile(Template(<<"F">>, S_n1, <<"S", "e", "n", "d", "_", "I", "t">>, K_slack, P_slack, EmptyDict)),
      G |-> JsonFile([name |-> <<"G">>, nodes |-> <<>>, connections |-> EmptyDict])] :
        params \in SlackParams, conns \in {EmptyDict, (S_n1 :> (S_main :> DestList(<<DestTo(S_n1)>>))), (S_n1 :> (S_main :> DestSingle(DestTo(S_n1))))}}

AssembleCalls ==
    {[op |-> "assemble", vault |-> vault, workflow_names |-> names, title |-> title] : vault \in Vaults, names \in SeqsUpTo({"A", "B", "C", "D", "E", "F", "G"}, MaxCombine), title \in {<<"L", "e", "a", "d", " ", "C", "a", "p", "t", "u", "r", "e">>, <<"L", "e", "a", "d", "-", "C", "a", "p", "t", "u", "r", "e", " ", "2", "!">>}}

\* parameters the security check is run on
SecretParams ==
    {EmptyDict,
     (<<"a", "p", "i", "_", "k", "e", "y">> :> StrVal(<<"h", "a", "r", "d", "c", "o", "d", "e", "d", "_", "k", "e", "y">>)),
     (<<"p", "a", "s", "s", "w", "o", "r", "d">> :> StrVal(<<"h", "u", "n", "t", "e", "r", "2">>)),
     (<<"t", "o", "k", "e", "n">> :> StrVal(<<"h", "a", "r", "d", "c", "o", "d", "e", "d", "_", "t", "o", "k", "e", "n">>)),
     (<<"p", "a", "s", "s", "w", "o", "r", "d">> :> StrVal(<<"{", "{", " ", "$", "e", "n", "v", ".", "P", "A", "S", "S", " ", "}", "}">>)),
     (<<"a", "p", "i", "_", "k", "e", "y">> :> StrVal(<<"{", "{", " ", "$", "e", "n", "v", ".", "K", "E", "Y", " ", "}", "}">>)),
     (<<"p", "a", "s", "s", "w", "o", "r", "d">> :> StrVal(<<"h", "u", "n", "t", "e", "r", "2">>)) @@ (<<"u", "r", "l">> :> StrVal(<<"{", "{", " ", "$", "j", "s", "o", "n", ".", "u", "r", "l", " ", "}", "}">>)),
     (<<"a", "u", "t", "h">> :> DictVal((<<"a", "p", "i", "_", "k", "e", "y">> :> StrVal(<<"k">>)) @@ (<<"u", "s", "e", "r">> :> StrVal(<<"$", "{", "{", "$", "e", "n", "v", ".", "N", "O", "T", "I", "O", "N", "_", "T", "O", "K", "E", "N", "}", "}">>)))),
     (<<"k", "e", "y">> :> StrVal(<<"{", "{", " ", "$", "e", "n", "v", ".", "N", "O", "T", "I", "O", "N", "_", "T", "O", "K", "E", "N", " ", "}", "}">>)),
     (<<"k", "e", "y">> :> StrVal(<<"$", "{", "{", " ", "$", "e", "n", "v", ".", "N", "O", "T", "I", "O", "N", "_", "T", "O", "K", "E", "N", "S", " ", "}", "}">>))}

\* a workflow object of n set nodes without connections (n = 0 after the
\* node list was emptied in place)
SizedWorkflow(n) ==
    [name |-> <<"s", "i", "z", "e", "d">>, nodes |-> [i \in 1..n |-> [id |-> <<"n">> \o IntStr(i), name |-> <<"a">>, type |-> K_set, position |-> NodePosition(0, 0), parameters |-> EmptyDict, credentials |-> None, retries |-> 3, retry_on_fail |-> TRUE]], connections |-> EmptyDict, settings |-> EmptyDict, id |-> None, active |-> FALSE, tags |-> <<>>]

\* node counts around the limits of the schema check
NodeCounts == {0, 1, 49, 50, 51, 52}

ValidateCalls ==
    {[op |-> "validate", w |-> N8nWorkflow(<<"c", "h", "e", "c", "k", "e", "d">>, nodes, EmptyDict, EmptyDict, None, FALSE, <<>>).val] :
        nodes \in {<<[id |-> S_n1, name |-> name, type |-> K_set, position |-> NodePosition(0, 0), parameters |-> p, credentials |-> None, retries |-> 3, retry_on_fail |-> TRUE]>> : name \in {<<"a">>, <<"l", "o", "g", "_", "_", "a">>}, p \in SecretParams}
              \cup {<<[id |-> S_n1, name |-> <<"a">>, type |-> K_set, position |-> NodePosition(0, 0), parameters |-> p, credentials |-> None, retries |-> 3, retry_on_fail |-> TRUE],
                      [id |-> S_n2, name |-> <<"e", "r", "r", "o", "r", "_", "_", "a">>, type |-> K_notion, position |-> NodePosition(0, 300), parameters |-> q, credentials |-> None, retries |-> 3, retry_on_fail |-> TRUE]>> : p \in SecretParams, q \in SecretParams}}
    \cup {[op |-> "validate", w |-> SizedWorkflow(n)] : n \in NodeCounts}

\* most results in a list handed to generate_validation_report directly
MaxResults == 3

\* the calls generate_validation_report(results) on a list of results of
\* any length, the empty one included
ReportCalls ==
    {[op |-> "report", results |-> rs] : rs \in SeqsUpTo({ValidationResult(passed, level, Message("checked", <<>>)) : passed \in BOOLEAN, level \in {"schema", "security", "performance"}}, MaxResults)}

\* a raw node of a vault file: well formed but for the name given, the
\* fields left out and the fields of another JSON type
RawNode(node_name, missing, wrong_type) ==
    LET full == [id |-> S_n1, name |-> node_name, type |-> K_set, position |-> <<100, 200>>, parameters |-> EmptyDict, wrong_type |-> wrong_type]
    IN [k \in DOMAIN full \ missing |-> full[k]]

\* raw nodes: sound ones (one with capitals), names outside snake_case,
\* missing fields, positions that are no list, too short or not numeric
LoadNodes ==
    {RawNode(<<"s", "e", "n", "d">>, {}, {}),
     RawNode(<<"S", "e", "n", "d", "_", "I", "t">>, {}, {}),
     RawNode(<<"B", "a", "d", " ", "N", "a", "m", "e", "!">>, {}, {}),
     RawNode(<<"s", "e", "n", "d">>, {"type"}, {}),
     RawNode(<<"a", " ", "b">>, {"id", "type"}, {"position[1]"}),
     RawNode(<<"s", "e", "n", "d">>, {"position"}, {}),
     RawNode(<<"s", "e", "n", "d">>, {}, {"position"}),
     RawNode(<<"s", "e", "n", "d">>, {}, {"position[0]", "position[1]"}),
     RawNode(<<>>, {}, {})}

\* a raw document: well formed but for its nodes, the top-level keys left
\* out and the keys of another JSON type
RawDocument(nodes, missing, wrong_type) ==
    LET full == [name |-> <<"T">>, nodes |-> nodes, connections |-> EmptyDict, wrong_type |-> wrong_type]
    IN [k \in DOMAIN full \ missing |-> full[k]]

\* the calls load_workflow_from_vault(workflow_name) on a vault whose file T
\* has any mix of structural violations, whose file D does not parse and
\* that holds no file C
LoadCalls ==
    {[op |-> "load", vault |-> [T |-> JsonFile(RawDocument(nodes, missing, wrong_type)), D |-> [json |-> FALSE]], workflow_name |-> workflow_name] :
        nodes \in {<<>>} \cup {<<n>> : n \in LoadNodes} \cup {<<n, m>> : n \in LoadNodes, m \in {RawNode(<<"B", "a", "d", " ", "N", "a", "m", "e", "!">>, {}, {}), RawNode(<<"s", "e", "n", "d">>, {"name"}, {})}},
        missing \in SUBSET {"name", "nodes", "connections"},
        wrong_type \in SUBSET {"nodes", "connections"},
        workflow_name \in {"T", "C", "D"}}

\* what one output port of a connection entry may hold
PortSamples ==
    {DestList(<<>>), DestList(<<DestTo(S_n1)>>), DestList(<<DestTo(<<"n", "9">>), DestNotDict>>), DestList(<<DestNoNode>>), DestSingle(DestTo(<<"n", "9">>)), DestSingle(DestTo(S_n2))}

\* connection maps over the source keys n1, n2 and n3: each key is absent
\* or holds one port
ConnectionSamples ==
    {[s \in keys |-> (S_main :> port[s])] : keys \in SUBSET {S_n1, S_n2, <<"n", "3">>}, port \in [{S_n1, S_n2, <<"n", "3">>} -> PortSamples]}

\* the calls workflow.validate_node_connections() on a workflow of node n1
\* or of nodes n1 and n2
ConnectionCalls ==
    {[op |-> "connections", w |-> [SizedWorkflow(n) EXCEPT !.connections = conns]] : n \in {1, 2}, conns \in ConnectionSamples}

\* a template document of n nodes n1..nn, set and webhook nodes in turn,
\* none named as a shadow
SizedTemplate(n) ==
    [name |-> <<"S">> \o IntStr(n), nodes |-> [i \in 1..n |-> [id |-> <<"n">> \o IntStr(i), name |-> IF i % 2 = 1 THEN <<"s", "t", "e", "p">> ELSE <<"f", "e", "t", "c", "h", "_", "d", "a", "t", "a">>, type |-> IF i % 2 = 1 THEN K_set ELSE K_webhook, position |-> <<100 * i, 200>>, parameters |-> EmptyDict]], connections |-> EmptyDict, settings |-> EmptyDict, active |-> FALSE, tags |-> <<>>]

\* a vault of templates of 0, 1, 6, 7, 12 and 13 nodes
SizedVault ==
    [S0 |-> JsonFile(SizedTemplate(0)), S1 |-> JsonFile(SizedTemplate(1)), S6 |-> JsonFile(SizedTemplate(6)), S7 |-> JsonFile(SizedTemplate(7)), S12 |-> JsonFile(SizedTemplate(12)), S13 |-> JsonFile(SizedTemplate(13))]

\* the calls assemble(workflow_names, opportunity) on the sized vault whose
\* templates hold 2, 12, 13 and 14 nodes in total
SizedAssembleCalls ==
    {[op |-> "assemble", vault |-> SizedVault, workflow_names |-> names, title |-> <<"L", "e", "a", "d", " ", "C", "a", "p", "t", "u", "r", "e">>] : names \in {<<"S1", "S1">>, <<"S12">>, <<"S6", "S6">>, <<"S13">>, <<"S6", "S7">>, <<"S1", "S12">>, <<"S7", "S7">>}}

\* the calls process_workflow(workflow_name) on the sized vault (it has no
\* file C) and on the vaults of the assembler
ProcessCalls ==
    {[op |-> "process", vault |-> SizedVault, workflow_name |-> workflow_name] : workflow_name \in {"S0", "S1", "S6", "S12", "S13", "C"}}
    \cup {[op |-> "process", vault |-> vault, workflow_name |-> workflow_name] : vault \in Vaults, workflow_name \in {"A", "B", "D", "E"}}

InitAsm ==
    /\ call \in CombineCalls \cup AssembleCalls \cup SizedAssembleCalls \cup ProcessCalls \cup LoadCalls \cup ValidateCalls \cup ReportCalls \cup ConnectionCalls
    /\ wf = IF call.op \in {"validate", "connections"} THEN call.w ELSE None
    /\ ret = None
    /\ asm = None
    /\ results = IF call.op = "report" THEN call.results ELSE None
    /\ report = None
    /\ prev = None
    /\ ops = <<>>

\* processor.combine_workflows(workflows, combined_name)
Combine ==
    /\ call.op = "combine"
    /\ ret = None
    /\ ret' = combine_workflows(call.workflows, call.combined_name)
    /\ wf' = IF ret'.ok THEN ret'.val ELSE wf
    /\ UNCHANGED <<call, prev, ops, asm, results, report>>

\* assembler.assemble_workflows(workflow_names, opportunity)
Assemble ==
    /\ call.op = "assemble"
    /\ ret = None
    /\ ret' = assemble_workflows(call.vault, call.workflow_names, call.title)
    /\ asm' = ret'
    /\ wf' = IF ret'.ok THEN ret'.val ELSE wf
    /\ UNCHANGED <<call, prev, ops, results, report>>

\* processor.process_workflow(workflow_name)
Process ==
    /\ call.op = "process"
    /\ ret = None
    /\ ret' = process_workflow(call.vault, call.workflow_name)
    /\ wf' = IF ret'.ok THEN ret'.val ELSE wf
    /\ UNCHANGED <<call, prev, ops, asm, results, report>>

\* processor.load_workflow_from_vault(workflow_name)
Load ==
    /\ call.op = "load"
    /\ ret = None
    /\ ret' = load_workflow_from_vault(call.vault, call.workflow_name)
    /\ wf' = IF ret'.ok THEN ret'.val ELSE wf
    /\ UNCHANGED <<call, prev, ops, asm, results, report>>

\* workflow.validate_node_connections(): the list it returns is left in
\* ret; the workflow object is not assigned to
ValidateConnections ==
    /\ call.op = "connections"
    /\ ret = None
    /\ ret' = Ok(validate_node_connections(wf))
    /\ UNCHANGED <<call, wf, prev, ops, asm, results, report>>

\* validator.validate_workflow(workflow)
Validate ==
    /\ call.op # "report"
    /\ wf # None
    /\ results = None
    /\ results' = validate_workflow(wf)
    /\ UNCHANGED <<call, ret, wf, prev, ops, asm, report>>

\* validator.generate_validation_report(results)
Report ==
    /\ IF call.op = "report" THEN TRUE ELSE results # None
    /\ report = None
    /\ report' = generate_validation_report(results)
    /\ UNCHANGED <<call, ret, wf, prev, ops, asm, results>>

NextAsm ==
    \/ Combine
    \/ Assemble
    \/ Process
    \/ Load
    \/ ValidateConnections
    \/ Validate
    \/ Report

SpecAsm == InitAsm /\ [][NextAsm]_vars

\* validate_workflow has run on wf and left its list in results
Validated ==
    call.op # "report" /\ results # None

(***************************************************************************)
(* Claims about combining, assembling and validating (checked under        *)
(* SpecAsm).                                                               *)
(***************************************************************************)
\* assemble(["A", "B"], opportunity) has returned
AssembledAB ==
    call.op = "assemble" /\ call.workflow_names = <<"A", "B">> /\ ret # None

\* the number of nodes of w whose name starts with prefix
CountPrefixed(w, prefix) ==
    Cardinality({i \in 1..Len(w.nodes) : StartsWith(w.nodes[i].name, prefix)})

\* the nodes of w that are no log__ or error__ shadow
Originals(w) ==
    {i \in 1..Len(w.nodes) : ~ StartsWith(w.nodes[i].name, <<"l", "o", "g", "_", "_">>) /\ ~ StartsWith(w.nodes[i].name, <<"e", "r", "r", "o", "r", "_", "_">>)}

\* C1 as stated: assemble(["A","B"]) for the title "Lead Capture" returns a
\* workflow named lead_capture_automation with 6 nodes: 2 originals, 2
\* log__ shadows and 2 error__ shadows, every original with retries 3.
C1_AssembleSixNodes ==
    (AssembledAB /\ call.title = <<"L", "e", "a", "d", " ", "C", "a", "p", "t", "u", "r", "e">>) =>
        /\ ret.ok
        /\ ret.val.name = <<"l", "e", "a", "d", "_", "c", "a", "p", "t", "u", "r", "e", "_", "a", "u", "t", "o", "m", "a", "t", "i", "o", "n">>
        /\ Len(ret.val.nodes) = 6
        /\ Cardinality(Originals(ret.val)) = 2
        /\ CountPrefixed(ret.val, <<"l", "o", "g", "_", "_">>) = 2
        /\ CountPrefixed(ret.val, <<"e", "r", "r", "o", "r", "_", "_">>) = 2
        /\ \A i \in Originals(ret.val) : ret.val.nodes[i].retries = 3

\* C1 as amended: the workflow is named lead_capture_automation and holds 8
\* nodes: the 2 originals, 2 log__ shadows and 4 error__ shadows (one for
\* each original and one for each log__ shadow); every original has
\* retries 3.
C1_AssembleEightNodes ==
    (AssembledAB /\ call.title = <<"L", "e", "a", "d", " ", "C", "a", "p", "t", "u", "r", "e">>) =>
        /\ ret.ok
        /\ ret.val.name = <<"l", "e", "a", "d", "_", "c", "a", "p", "t", "u", "r", "e", "_", "a", "u", "t", "o", "m", "a", "t", "i", "o", "n">>
        /\ Len(ret.val.nodes) = 8
        /\ Cardinality(Originals(ret.val)) = 2
        /\ CountPrefixed(ret.val, <<"l", "o", "g", "_", "_">>) = 2
        /\ CountPrefixed(ret.val, <<"e", "r", "r", "o", "r", "_", "_">>) = 4
        /\ CountPrefixed(ret.val, <<"e", "r", "r", "o", "r", "_", "_", "l", "o", "g", "_", "_">>) = 2
        /\ \A i \in Originals(ret.val) : ret.val.nodes[i].retries = 3
        /\ {ret.val.nodes[i].type : i \in Originals(ret.val)} = {K_webhook, K_slack}

\* assemble(["A","B"]) for "Lead Capture" returned a workflow whose last
\* node is the error shadow of a log shadow
C1_Witness ==
    /\ AssembledAB
    /\ call.title = <<"L", "e", "a", "d", " ", "C", "a", "p", "t", "u", "r", "e">>
    /\ ret.ok
    /\ ret.val.nodes[Len(ret.val.nodes)].name = <<"e", "r", "r", "o", "r", "_", "_", "l", "o", "g", "_", "_", "s", "l", "a", "c", "k", "_", "b", "_", "s", "e", "n", "d">>

TemplateBParams ==
    call.vault.B.data.nodes[1].parameters

References(ports) ==
    {d.node : d \in {x \in UNION {IF ports[o].islist THEN Range(ports[o].items) ELSE {ports[o].dest} : o \in DOMAIN ports} : x.isdict /\ "node" \in DOMAIN x /\ x.node # <<>>}}

\* C4: combine([W1, W2]) returns len(W1.nodes) + len(W2.nodes) nodes and,
\* when every connection of W2 referenced existing W2 nodes, every
\* connection source key and destination reference that originates from W2
\* is the id of a node of the combined workflow.
C4_CombineResolves ==
    (call.op = "combine" /\ Len(call.workflows) = 2 /\ ret # None) =>
        /\ ret.ok
        /\ validate_node_connections(call.workflows[2]) = {} =>
              \A s \in DOMAIN call.workflows[2].connections :
                  LET new_source_id == call.workflows[2].name \o <<"_">> \o s
                      node_ids == {ret.val.nodes[i].id : i \in 1..Len(ret.val.nodes)}
                  IN /\ new_source_id \in DOMAIN ret.val.connections
                     /\ new_source_id \in node_ids
                     /\ References(ret.val.connections[new_source_id]) \subseteq node_ids

\* C5 as stated: combine([]) fails with a ProcessingError and returns no
\* workflow; combine([W]) returns W's nodes and connections under the given
\* combined name.
C5_CombineEmptyAndSingle ==
    (call.op = "combine" /\ ret # None) =>
        /\ Len(call.workflows) = 0 => (~ ret.ok /\ ret.err = "WorkflowProcessorError" /\ wf = None)
        /\ Len(call.workflows) = 1 =>
              /\ ret.ok
              /\ ret.val.nodes = call.workflows[1].nodes
              /\ ret.val.connections = call.workflows[1].connections
              /\ ret.val.name = call.combined_name

\* C5 as amended: combine([]) fails with a ProcessingError and returns no
\* workflow; combine([W]) returns W's nodes, connections, settings, id,
\* active flag and tags under the normalized form of the given combined
\* name (the given name itself when it is already normalized).
C5_CombineEmptyAndSingleNormalized ==
    (call.op = "combine" /\ ret # None) =>
        /\ Len(call.workflows) = 0 => (~ ret.ok /\ ret.err = "WorkflowProcessorError" /\ wf = None)
        /\ Len(call.workflows) = 1 =>
              /\ ret.ok
              /\ ret.val.nodes = call.workflows[1].nodes
              /\ ret.val.connections = call.workflows[1].connections
              /\ ret.val.settings = call.workflows[1].settings
              /\ ret.val.id = call.workflows[1].id
              /\ ret.val.active = call.workflows[1].active
              /\ ret.val.tags = call.workflows[1].tags
              /\ ret.val.name = validate_workflow_naming(call.combined_name)

\* combine returned for one workflow that has an id, tags and connections
\* kept as they were, under a name it had to normalize
C5_Witness ==
    /\ call.op = "combine"
    /\ ret # None
    /\ Len(call.workflows) = 1
    /\ call.workflows[1].id = StrVal(<<"7">>)
    /\ call.combined_name = <<"L", "e", "a", "d", " ", " ", "C", "a", "p", "t", "u", "r", "e">>
    /\ ret.ok
    /\ ret.val.name = <<"l", "e", "a", "d", "_", "c", "a", "p", "t", "u", "r", "e">>

\* the hardcoded-secret result names node
Reported(node) ==
    \E k \in 1..Len(results[6].message.args) : results[6].message.args[k].node = node.name

\* C10: the hardcoded-secret check reports a secret for every node whose
\* parameters contain an api_key entry with a literal value (no template
\* delimiter anywhere in the node's parameters), as it does for password
\* and token entries.
C10_ApiKeyReported ==
    Validated =>
        \A i \in 1..Len(wf.nodes) :
            (InParams(wf.nodes[i], <<"a", "p", "i", "_", "k", "e", "y">>) /\ ~ InParams(wf.nodes[i], <<"{", "{">>)) =>
                (~ results[6].passed /\ Reported(wf.nodes[i]))

\* a parameter of the node named password or token whose value is a string
\* without the template delimiter
HasLiteralSecret(node) ==
    \E k \in DOMAIN node.parameters :
        /\ Contains(k, <<"p", "a", "s", "s", "w", "o", "r", "d">>) \/ Contains(k, <<"t", "o", "k", "e", "n">>)
        /\ "s" \in DOMAIN node.parameters[k]
        /\ ~ Contains(node.parameters[k].s, <<"{", "{">>)

\* C11: the hardcoded-secret check decides per value: a node whose password
\* or token parameter has a literal value is reported even when another
\* parameter of the node holds a templated expression, and a node none of
\* whose password or token values is literal is not reported.
C11_SecretsDecidedPerValue ==
    Validated =>
        \A i \in 1..Len(wf.nodes) :
            /\ HasLiteralSecret(wf.nodes[i]) => (~ results[6].passed /\ Reported(wf.nodes[i]))
            /\ ~ HasLiteralSecret(wf.nodes[i]) => ~ Reported(wf.nodes[i])

\* the text ${{ $env.NAME }} with a spaces after the opening braces and b
\* before the closing ones
EnvReference(name, a, b) ==
    <<"$", "{", "{">> \o [k \in 1..a |-> " "] \o <<"$", "e", "n", "v", ".">> \o name \o [k \in 1..b |-> " "] \o <<"}", "}">>

\* C12: the environment-variable result of the security check passes
\* exactly when NOTION_TOKEN, the required variable, is referenced as
\* ${{ $env.NOTION_TOKEN }} (any spacing inside the braces) in the
\* parameters of at least one node, and fails otherwise.
C12_EnvResult ==
    Validated =>
        /\ results[7].level = "security"
        /\ results[7].passed <=>
              \E i \in 1..Len(wf.nodes) : \E a, b \in 0..2 : InParams(wf.nodes[i], EnvReference(<<"N", "O", "T", "I", "O", "N", "_", "T", "O", "K", "E", "N">>, a, b))

\* the validator ran on a workflow whose second node references
\* NOTION_TOKEN inside a nested parameter while its first node holds the
\* reference without the leading dollar sign: the result passed
C12_Witness ==
    /\ call.op = "validate"
    /\ results # None
    /\ Len(wf.nodes) = 2
    /\ wf.nodes[1].parameters = (<<"k", "e", "y">> :> StrVal(<<"{", "{", " ", "$", "e", "n", "v", ".", "N", "O", "T", "I", "O", "N", "_", "T", "O", "K", "E", "N", " ", "}", "}">>))
    /\ <<"a", "u", "t", "h">> \in DOMAIN wf.nodes[2].parameters
    /\ results[7].passed

\* C13: the error-handling result of the business-logic check fails exactly
\* when no node name starts with error__ and passes when at least one does;
\* a log__ node does not count.
C13_ErrorHandlingResult ==
    Validated =>
        /\ results[4].level = "logic"
        /\ results[4].passed <=> CountPrefixed(wf, <<"e", "r", "r", "o", "r", "_", "_">>) >= 1
        /\ ~ results[4].passed => results[4].message.text = "Error handling nodes are missing"

\* the validator ran on a workflow whose only node is a log__ node: the
\* error-handling result failed
C13_Witness ==
    /\ call.op = "validate"
    /\ results # None
    /\ Len(wf.nodes) = 1
    /\ wf.nodes[1].name = <<"l", "o", "g", "_", "_", "a">>
    /\ ~ results[4].passed

\* the count the report gives for a level under field (passed or failed),
\* 0 for a level the report does not list
LevelCount(level, field) ==
    IF level \in DOMAIN report.by_level THEN report.by_level[level][field] ELSE 0

\* the sum over all levels of the report's count under field
LevelSum(field) ==
    LevelCount("schema", field) + LevelCount("logic", field) + LevelCount("security", field) + LevelCount("performance", field) + LevelCount("integration", field)

\* C14: for every list of results the report has total = passed + failed,
\* overall_status FAIL exactly when failed > 0 (PASS otherwise, also for
\* the empty list), success_rate = passed/total (0 when total is 0), and
\* per-level passed and failed counts that sum to the summary counts.
C14_ReportCounts ==
    (report # None) =>
        /\ report.summary.total_checks = Len(results)
        /\ report.summary.passed = Cardinality({i \in 1..Len(results) : results[i].passed})
        /\ report.summary.failed = Cardinality({i \in 1..Len(results) : ~ results[i].passed})
        /\ report.summary.total_checks = report.summary.passed + report.summary.failed
        /\ report.summary.overall_status = (IF report.summary.failed > 0 THEN "FAIL" ELSE "PASS")
        /\ Len(results) = 0 => (report.summary.overall_status = "PASS" /\ report.summary.success_rate.num = 0)
        /\ Len(results) > 0 => (report.summary.success_rate.num = report.summary.passed /\ report.summary.success_rate.den = report.summary.total_checks)
        /\ DOMAIN report.by_level = {results[i].level : i \in 1..Len(results)}
        /\ LevelSum("passed") = report.summary.passed
        /\ LevelSum("failed") = report.summary.failed

\* a report was generated from three results of two levels, one of them
\* failed and fewer than the passed ones
C14_Witness ==
    /\ call.op = "report"
    /\ report # None
    /\ Len(results) = 3
    /\ report.summary.failed = 1
    /\ Cardinality(DOMAIN report.by_level) = 2
    /\ report.summary.overall_status = "FAIL"


\* load_workflow_from_vault has returned or raised on the file named
Loaded(workflow_name) ==
    call.op = "load" /\ call.workflow_name = workflow_name /\ ret # None

\* the structural violations of a raw document: top-level keys left out,
\* nodes that are no array, connections that are no object, and for every
\* node the fields left out and the position that is no pair of numbers
Violations(data) ==
    LET wrong == IF "wrong_type" \in DOMAIN data THEN data.wrong_type ELSE {}
        nodes == IF "nodes" \in DOMAIN data /\ "nodes" \notin wrong THEN data.nodes ELSE <<>>
    IN {<<-1, f, "left out">> : f \in {"name", "nodes", "connections"} \ DOMAIN data}
       \cup {<<-1, f, "wrong type">> : f \in wrong}
       \cup UNION {{<<i - 1, f, "left out">> : f \in {"id", "name", "type", "position"} \ DOMAIN nodes[i]} : i \in 1..Len(nodes)}
       \cup UNION {{<<i - 1, f, "wrong type">> : f \in IF "position" \in nodes[i].wrong_type THEN {"position"} ELSE nodes[i].wrong_type} : i \in 1..Len(nodes)}

\* the error of the message that names a violation
ErrorOf(violation) ==
    [error |-> CASE violation[3] = "left out" -> "Missing required field"
                 [] violation[2] = "nodes" -> "must be an array"
                 [] violation[2] = "connections" -> "must be an object"
                 [] violation[2] = "position" -> "Position must be array of two numbers"
                 [] OTHER -> "Position coordinate must be a number",
     node |-> violation[1], field |-> violation[2]]

\* C15: load of a structurally invalid vault file fails with one
\* WorkflowProcessorError whose message lists every structural violation of
\* the file, load of an absent file fails with a WorkflowProcessorError that
\* says the workflow was not found in the vault, and in both cases no
\* workflow is returned
C15_LoadListsEveryViolation ==
    /\ Loaded("C") => ret = ProcessingError("not found in vault") /\ wf = None
    /\ Loaded("T") /\ Violations(call.vault.T.data) # {} =>
          /\ ~ ret.ok
          /\ ret.err = "WorkflowProcessorError"
          /\ "errors" \in DOMAIN ret
          /\ \A v \in Violations(call.vault.T.data) : ErrorOf(v) \in ret.errors
          /\ wf = None

\* a file with two top-level and two node-level violations has been loaded
C15_Witness ==
    /\ Loaded("T")
    /\ Cardinality({v \in Violations(call.vault.T.data) : v[1] = -1}) >= 2
    /\ Cardinality({v \in Violations(call.vault.T.data) : v[1] >= 0}) >= 2
    /\ \A v \in Violations(call.vault.T.data) : ErrorOf(v) \in ret.errors
    /\ wf = None

\* the name is not empty and, in lower case, has a character outside
\* a-z, 0-9 and the underscore
NotSnakeCase(name) ==
    name # <<>> /\ \E i \in 1..Len(name) : Lower(name)[i] \notin LowerChars \cup DigitChars \cup {"_"}

\* the nodes of loaded file T that the raw-structure check visits whose
\* name is not snake_case, by index
NotSnakeCaseNodes ==
    LET data == call.vault.T.data
    IN IF "nodes" \in DOMAIN data /\ "nodes" \notin data.wrong_type
       THEN {i \in 1..Len(data.nodes) : "name" \in DOMAIN data.nodes[i] /\ NotSnakeCase(data.nodes[i].name)}
       ELSE {}

\* the structural errors of the WorkflowProcessorError in ret
StructuralErrors ==
    IF "errors" \in DOMAIN ret THEN ret.errors ELSE {}

\* C16 as stated: during load, a node name that fails the snake_case
\* pattern is not added to the structural errors that make load fail with
\* 'Invalid workflow JSON'
C16_SnakeCaseOnlyWarning ==
    Loaded("T") =>
        \A i \in NotSnakeCaseNodes : [error |-> "should use snake_case convention", node |-> i - 1, field |-> "name"] \notin StructuralErrors

\* C16 amended: during load, a node name that in lower case fails the
\* snake_case pattern is one of the structural errors, so that load fails
\* with 'Invalid workflow JSON' and returns no workflow even when the file
\* has no other violation; names that pass the pattern once lowered add no
\* such error
C16_SnakeCaseIsStructuralError ==
    Loaded("T") =>
        /\ \A i \in NotSnakeCaseNodes : [error |-> "should use snake_case convention", node |-> i - 1, field |-> "name"] \in StructuralErrors
        /\ NotSnakeCaseNodes # {} => ~ ret.ok /\ ret.err = "WorkflowProcessorError" /\ wf = None
        /\ \A e \in StructuralErrors : e.error = "should use snake_case convention" => e.node + 1 \in NotSnakeCaseNodes

\* a file whose only violation is the name of its node has been loaded
C16_Witness ==
    /\ Loaded("T")
    /\ Violations(call.vault.T.data) = {}
    /\ NotSnakeCaseNodes = {1}
    /\ ~ ret.ok
    /\ StructuralErrors = {[error |-> "should use snake_case convention", node |-> 0, field |-> "name"]}

\* assemble_workflows has returned or raised
Assembled ==
    call.op = "assemble" /\ ret # None

\* C17: assemble returns the assembled workflow whenever every template
\* named loads and there is at least one, dangling references reported by
\* validate_node_connections or not, and every failure inside it (a
\* missing, unparsable or structurally invalid template, an empty list of
\* templates, a node or workflow that cannot be constructed) reaches the
\* caller as a WorkflowAssemblerError and as no other kind of error
C17_AssembleOutcome ==
    Assembled =>
        /\ ret.ok \/ ret = AssemblerError
        /\ ret.ok <=> (call.workflow_names # <<>> /\ \A k \in 1..Len(call.workflow_names) : call.workflow_names[k] \in {"A", "B", "S1", "S6", "S7", "S12", "S13"})
        /\ ret.ok => wf = ret.val

\* a workflow with a dangling reference has been returned
C17_Witness ==
    /\ Assembled
    /\ ret.ok
    /\ wf = ret.val
    /\ \E e \in validate_node_connections(ret.val) : e.error = "destination not found"

RECURSIVE SourceEntries(_)
\* the number of connection entries (source keys) of the workflows together
SourceEntries(workflows) ==
    IF workflows = <<>> THEN 0 ELSE Cardinality(DOMAIN Head(workflows).connections) + SourceEntries(Tail(workflows))

\* C19: combine of two or more workflows prefixes the id of every node in
\* the result with the name of the workflow it came from, the nodes of the
\* first workflow included, and the result has one connection entry per
\* source connection entry
C19_CombinePrefixesEveryNode ==
    call.op = "combine" /\ Len(call.workflows) >= 2 /\ ret # None /\ ret.ok =>
        /\ Len(ret.val.nodes) = Len(call.workflows[1].nodes) + Len(call.workflows[2].nodes)
        /\ \A k \in 1..Len(call.workflows) : \A i \in 1..Len(call.workflows[k].nodes) :
              \E j \in 1..Len(ret.val.nodes) : ret.val.nodes[j].id = call.workflows[k].name \o <<"_">> \o call.workflows[k].nodes[i].id
        /\ Cardinality(DOMAIN ret.val.connections) = SourceEntries(call.workflows)

(***************************************************************************)
(* main.py: the generate command's loop over the opportunities.  A         *)
(* behaviour is one run (call); ops is the log of the pipeline steps run   *)
(* so far, each with the opportunity's index, the step's number and        *)
(* whether it completed or raised, and ret is set when the run ends.  The  *)
(* vault and the output directory are read anew for every opportunity, so  *)
(* each guarded step may complete or raise independently of the others;    *)
(* the steps outside a try block (directory creation, validation, saving   *)
(* the report) are taken to complete.                                      *)
(***************************************************************************)
\* most opportunities left after opportunities[:max_opportunities]
MaxOpportunities == 3

\* the runs: the number of opportunities mapped and the command's flags
GenerateCalls ==
    {[op |-> "generate", opportunities |-> n, validate_only |-> v, generate_tests |-> t] : n \in 0..MaxOpportunities, v \in BOOLEAN, t \in BOOLEAN}

InitBatch ==
    /\ call \in GenerateCalls
    /\ ops = <<>>
    /\ ret = None
    /\ wf = None
    /\ prev = None
    /\ asm = None
    /\ results = None
    /\ report = None

\* a pipeline step of the log
StepRun(opp_idx, current_step, ok) == [opp_idx |-> opp_idx, current_step |-> current_step, ok |-> ok]

\* the loop with an assembly failure that ends the run instead of the
\* iteration
Position_assembly_failure_ends_run(log, run) ==
    IF log = <<>>
    THEN IF run.opportunities = 0 THEN [opp_idx |-> 0, current_step |-> 2] ELSE [opp_idx |-> 1, current_step |-> 3]
    ELSE LET last == log[Len(log)]
         IN CASE last.current_step = 3 /\ last.ok -> [opp_idx |-> last.opp_idx, current_step |-> 4]
              [] last.current_step = 3 /\ ~ last.ok -> [opp_idx |-> 0, current_step |-> 7]
              [] last.current_step = 4 /\ ~ run.validate_only -> [opp_idx |-> last.opp_idx, current_step |-> 5]
              [] last.current_step = 5 /\ last.ok -> [opp_idx |-> last.opp_idx, current_step |-> 6]
              [] OTHER -> IF last.opp_idx < run.opportunities
                          THEN [opp_idx |-> last.opp_idx + 1, current_step |-> 3]
                          ELSE [opp_idx |-> 0, current_step |-> 7]

\* where the loop of generate stands after the steps of the log: the
\* opportunity and the step to run next (3 assembly, 4 validation, 5
\* documentation, 6 package), step 2 for the return on an empty list and
\* step 7 for the summary after the loop.  A step that raised, validation
\* in validate-only mode and the package step end the iteration (continue).
Position(log, run) ==
    IF log = <<>>
    THEN IF run.opportunities = 0 THEN [opp_idx |-> 0, current_step |-> 2] ELSE [opp_idx |-> 1, current_step |-> 3]
    ELSE LET last == log[Len(log)]
         IN CASE last.current_step = 3 /\ last.ok -> [opp_idx |-> last.opp_idx, current_step |-> 4]
              [] last.current_step = 4 /\ ~ run.validate_only -> [opp_idx |-> last.opp_idx, current_step |-> 5]
              [] last.current_step = 5 /\ last.ok -> [opp_idx |-> last.opp_idx, current_step |-> 6]
              [] OTHER -> IF last.opp_idx < run.opportunities
                          THEN [opp_idx |-> last.opp_idx + 1, current_step |-> 3]
                          ELSE [opp_idx |-> 0, current_step |-> 7]

\* `if not opportunities: ... return`
NoOpportunities ==
    /\ call.op = "generate"
    /\ ret = None
    /\ Position(ops, call).current_step = 2
    /\ ret' = [returned |-> "no opportunities"]
    /\ UNCHANGED <<call, wf, prev, ops, asm, results, report>>

\* STEP 3: the package directory is created and assemble_workflows returns
\* or raises; when it raises, the handler logs and continues
WorkflowAssembly ==
    /\ call.op = "generate"
    /\ ret = None
    /\ Position(ops, call).current_step = 3
    /\ \E ok \in BOOLEAN : ops' = Append(ops, StepRun(Position(ops, call).opp_idx, 3, ok))
    /\ UNCHANGED <<call, ret, wf, prev, asm, results, report>>

\* STEP 4: validation, the report and its file; in validate-only mode the
\* iteration ends here
Validation ==
    /\ call.op = "generate"
    /\ ret = None
    /\ Position(ops, call).current_step = 4
    /\ ops' = Append(ops, StepRun(Position(ops, call).opp_idx, 4, TRUE))
    /\ UNCHANGED <<call, ret, wf, prev, asm, results, report>>

\* STEP 5: the documents are generated and saved, or the step raises and
\* the handler continues
DocumentationGeneration ==
    /\ call.op = "generate"
    /\ ret = None
    /\ Position(ops, call).current_step = 5
    /\ \E ok \in BOOLEAN : ops' = Append(ops, StepRun(Position(ops, call).opp_idx, 5, ok))
    /\ UNCHANGED <<call, ret, wf, prev, asm, results, report>>

\* STEP 6: the package, its metadata, the workflow file and the fixtures are
\* written, or the step raises and the handler continues
PackageCreation ==
    /\ call.op = "generate"
    /\ ret = None
    /\ Position(ops, call).current_step = 6
    /\ \E ok \in BOOLEAN : ops' = Append(ops, StepRun(Position(ops, call).opp_idx, 6, ok))
    /\ UNCHANGED <<call, ret, wf, prev, asm, results, report>>

\* the summary after the loop
Summary ==
    /\ call.op = "generate"
    /\ ret = None
    /\ Position(ops, call).current_step = 7
    /\ ret' = [returned |-> "completed", packages |-> call.opportunities]
    /\ UNCHANGED <<call, wf, prev, ops, asm, results, report>>

NextBatch ==
    \/ NoOpportunities
    \/ WorkflowAssembly
    \/ Validation
    \/ DocumentationGeneration
    \/ PackageCreation
    \/ Summary

SpecBatch == InitBatch /\ [][NextBatch]_vars

\* the command runs to its end: a step that is due is taken
SpecBatchFair == SpecBatch /\ WF_vars(NextBatch)

\* the steps of the log that ran for an opportunity
StepsOf(opp_idx) ==
    {ops[k].current_step : k \in {j \in 1..Len(ops) : ops[j].opp_idx = opp_idx}}

\* assembly has raised for the opportunity
AssemblyFailed(opp_idx) ==
    \E k \in 1..Len(ops) : ops[k] = StepRun(opp_idx, 3, FALSE)

MaxRetryBudget == 3

\* the codes of the APIResponseError a call of the operation may raise
ApiErrorCodes == {"object_not_found", "unauthorized", "rate_limited", "internal_server_error"}

RetryCalls ==
    {[op |-> "retry", max_retries |-> n] : n \in 0..MaxRetryBudget}

InitRetry ==
    /\ call \in RetryCalls
    /\ ops = <<>>
    /\ ret = None
    /\ wf = None
    /\ prev = None
    /\ asm = None
    /\ results = None
    /\ report = None

\* what the wrapper raises: the APIResponseError of the operation as it is,
\* or its own NotionClientError
ApiResponseError(code) == [ok |-> FALSE, err |-> "APIResponseError", code |-> code]

NotionClientError == [ok |-> FALSE, err |-> "NotionClientError"]

\* the test on e.code with nothing exempt from retrying
NotRetried_none(code) ==
    FALSE

\* `e.code in [APIErrorCode.ObjectNotFound, APIErrorCode.Unauthorized]`
NotRetried(code) ==
    code \in {"object_not_found", "unauthorized"}

\* the loop `for attempt in range(self.max_retries + 1)` has an iteration
\* left to run: attempt is the number of calls made so far
InLoop ==
    /\ call.op = "retry"
    /\ ret = None
    /\ Len(ops) < call.max_retries + 1

\* the operation returns: the wrapper returns its response
Returns ==
    /\ InLoop
    /\ ops' = Append(ops, "response")
    /\ ret' = Ok("response")
    /\ UNCHANGED <<call, wf, prev, asm, results, report>>

\* the operation raises an APIResponseError: the wrapper re-raises it when
\* the code is not retried or this was the last attempt, and sleeps before
\* the next attempt otherwise
RaisesApiError ==
    /\ InLoop
    /\ \E code \in ApiErrorCodes :
          /\ ops' = Append(ops, code)
          /\ ret' = IF NotRetried(code) \/ ~ (Len(ops) < call.max_retries)
                    THEN ApiResponseError(code)
                    ELSE ret
    /\ UNCHANGED <<call, wf, prev, asm, results, report>>

\* the operation raises something else: the wrapper raises
\* NotionClientError
RaisesOther ==
    /\ InLoop
    /\ ops' = Append(ops, "exception")
    /\ ret' = NotionClientError
    /\ UNCHANGED <<call, wf, prev, asm, results, report>>

NextRetry ==
    \/ Returns
    \/ RaisesApiError
    \/ RaisesOther

SpecRetry == InitRetry /\ [][NextRetry]_vars

\* C20: the retry wrapper calls the operation at most max_retries + 1
\* times; it returns at the first success and makes no call after it; it
\* re-raises after exactly one call when the first error is unauthorized or
\* object-not-found; and when every call fails with another API error it
\* raises only after exactly max_retries + 1 calls, and raises the last
\* error; once it has returned or raised it calls the operation no more
C20_RetryCallCount ==
    /\ [](Len(ops) <= call.max_retries + 1)
    /\ [](\A k \in 1..Len(ops) : ops[k] = "response" => k = Len(ops) /\ ret = Ok("response"))
    /\ [](Len(ops) >= 1 /\ ops[1] \in {"object_not_found", "unauthorized"} => Len(ops) = 1 /\ ret = ApiResponseError(ops[1]))
    /\ []((\A k \in 1..Len(ops) : ops[k] \in {"rate_limited", "internal_server_error"}) =>
            IF Len(ops) = call.max_retries + 1
            THEN ret = ApiResponseError(ops[Len(ops)])
            ELSE ret = None)
    /\ [][ret # None => ops' = ops]_vars

\* with max_retries 2, three calls failed with a retried API error and the
\* last error was raised
C20_Witness ==
    /\ call.op = "retry"
    /\ call.max_retries = 2
    /\ ops = <<"rate_limited", "internal_server_error", "rate_limited">>
    /\ ret = ApiResponseError("rate_limited")

RECURSIVE NodesBefore(_, _)
\* the number of nodes of the workflows before the k-th of the list
NodesBefore(workflows, k) ==
    IF k <= 1 THEN 0 ELSE Len(workflows[k - 1].nodes) + NodesBefore(workflows, k - 1)

\* combine_workflows has returned a workflow built from two or more
Combined ==
    call.op = "combine" /\ Len(call.workflows) >= 2 /\ ret # None /\ ret.ok

\* C21: in combine of two or more workflows, the nodes and connections of
\* the first workflow appear unchanged, and every node of the k-th
\* subsequent workflow appears with id and name prefixed by the source
\* workflow's name and an underscore, x increased by 400 + 800*(k-1) and y
\* unchanged, with every connection source key and destination node
\* reference of that workflow rewritten with the same prefix
C21_CombineRewrites ==
    Combined =>
        /\ SubSeq(ret.val.nodes, 1, Len(call.workflows[1].nodes)) = call.workflows[1].nodes
        /\ \A s \in DOMAIN call.workflows[1].connections :
              s \in DOMAIN ret.val.connections /\ ret.val.connections[s] = call.workflows[1].connections[s]
        /\ \A k \in 1..(Len(call.workflows) - 1) :
              LET w == call.workflows[k + 1]
                  prefix == w.name \o <<"_">>
              IN /\ \A i \in 1..Len(w.nodes) :
                        LET new_node == ret.val.nodes[NodesBefore(call.workflows, k + 1) + i]
                        IN /\ new_node.id = prefix \o w.nodes[i].id
                           /\ new_node.name = prefix \o w.nodes[i].name
                           /\ new_node.position.x = w.nodes[i].position.x + 400 + 800 * (k - 1)
                           /\ new_node.position.y = w.nodes[i].position.y
                 /\ \A s \in DOMAIN w.connections :
                        /\ prefix \o s \in DOMAIN ret.val.connections
                        /\ References(ret.val.connections[prefix \o s]) = {prefix \o d : d \in References(w.connections[s])}

\* the last operation applied to the workflow object was op
LastOp(op) ==
    Len(ops) >= 1 /\ ops[Len(ops)] = op

\* the indices of the nodes of w whose name starts with none of the
\* prefixes
Unprefixed(w, prefixes) ==
    {i \in 1..Len(w.nodes) : \A p \in prefixes : ~ StartsWith(w.nodes[i].name, p)}

\* wf holds the nodes it held before the last operation, unchanged, and
\* after them one shadow per node of prev that carries none of the
\* prefixes, in the order of their originals, each named, typed and placed
\* after its original; the connections are those of prev
ShadowsAppended(prefixes, shadow_prefix, kind, dx, dy) ==
    /\ Len(wf.nodes) = Len(prev.nodes) + Cardinality(Unprefixed(prev, prefixes))
    /\ SubSeq(wf.nodes, 1, Len(prev.nodes)) = prev.nodes
    /\ \A i \in Unprefixed(prev, prefixes) :
          LET new_node == wf.nodes[Len(prev.nodes) + Cardinality({j \in Unprefixed(prev, prefixes) : j <= i})]
          IN /\ new_node.name = shadow_prefix \o prev.nodes[i].name
             /\ new_node.type = kind
             /\ new_node.position = NodePosition(prev.nodes[i].position.x + dx, prev.nodes[i].position.y + dy)
    /\ wf.connections = prev.connections

\* C22: inject_logging, when it returns, has added exactly one shadow node
\* named log__<name> for each node whose name starts with neither log__ nor
\* error__, appended after all existing nodes in the order of their
\* originals, and has left the existing nodes and the connections map
\* unchanged; when it raises it has added nothing
C22_LoggingShadows ==
    LastOp("inject_logging") =>
        IF ret.ok
        THEN ShadowsAppended({<<"l", "o", "g", "_", "_">>, <<"e", "r", "r", "o", "r", "_", "_">>}, <<"l", "o", "g", "_", "_">>, K_set, 300, 0)
        ELSE wf = prev

\* inject_logging ran on a connected workflow of a log__ node and a plain
\* node and added the one shadow of the plain node
C22_Witness ==
    /\ LastOp("inject_logging")
    /\ ret.ok
    /\ Len(prev.nodes) = 2
    /\ StartsWith(prev.nodes[1].name, <<"l", "o", "g", "_", "_">>)
    /\ prev.connections # EmptyDict
    /\ Len(wf.nodes) = 3
    /\ wf.nodes[3].name = <<"l", "o", "g", "_", "_">> \o prev.nodes[2].name

\* C23: inject_error_handling, when it returns, has appended exactly one
\* webhook-kind shadow node named error__<name> at position (x, y+300) for
\* each node whose name does not start with error__, log__ shadow nodes
\* included, so that the number of nodes added equals the number of nodes
\* without the error__ prefix; existing nodes and the connections map are
\* unchanged; when it raises it has added nothing
C23_ErrorShadows ==
    LastOp("inject_error_handling") =>
        IF ret.ok
        THEN ShadowsAppended({<<"e", "r", "r", "o", "r", "_", "_">>}, <<"e", "r", "r", "o", "r", "_", "_">>, K_webhook, 0, 300)
        ELSE wf = prev

\* inject_error_handling ran after inject_logging on a connected workflow
\* and added a shadow for the log__ shadow as well
C23_Witness ==
    /\ ops = <<"inject_logging", "inject_error_handling">>
    /\ ret.ok
    /\ prev.connections # EmptyDict
    /\ \E i \in 1..Len(prev.nodes) : \E j \in 1..Len(wf.nodes) :
          /\ StartsWith(prev.nodes[i].name, <<"l", "o", "g", "_", "_">>)
          /\ wf.nodes[j].name = <<"e", "r", "r", "o", "r", "_", "_">> \o prev.nodes[i].name
          /\ wf.nodes[j].type = K_webhook
    /\ Len(wf.nodes) = Len(prev.nodes) + Cardinality(Unprefixed(prev, {<<"e", "r", "r", "o", "r", "_", "_">>}))

\* a connection of w names a source or a destination that is no node of w
HasDanglingReference(w) ==
    LET node_ids == {w.nodes[i].id : i \in 1..Len(w.nodes)}
    IN \E s \in DOMAIN w.connections : s \notin node_ids \/ ~ (References(w.connections[s]) \subseteq node_ids)

\* C24: the validator's schema level always returns three results; the
\* node-count result passes exactly when the workflow has between 1 and 50
\* nodes, and the connection result passes exactly when
\* validate_node_connections returns no error
C24_SchemaLevel ==
    Validated =>
        /\ {k \in 1..Len(results) : results[k].level = "schema"} = {1, 2, 3}
        /\ results[2].passed <=> (1 <= Len(wf.nodes) /\ Len(wf.nodes) <= 50)
        /\ results[3].passed <=> ~ HasDanglingReference(wf)
        /\ results[3].passed <=> validate_node_connections(wf) = {}

\* a workflow of 51 nodes has been validated and its node-count result
\* failed
C24_Witness ==
    /\ Validated
    /\ Len(wf.nodes) = 51
    /\ ~ results[2].passed
    /\ results[3].passed

\* validate_node_connections has returned its list for wf
ConnectionsChecked ==
    call.op = "connections" /\ ret # None

\* the ids of the nodes of w
NodeIds(w) ==
    {w.nodes[i].id : i \in 1..Len(w.nodes)}

AliasNodes ==
    <<[id |-> S_n1, name |-> <<"a">>, type |-> K_webhook, position |-> NodePosition(100, 100), parameters |-> EmptyDict, credentials |-> None, retries |-> 3, retry_on_fail |-> TRUE],
      [id |-> S_n2, name |-> <<"b">>, type |-> K_notion, position |-> NodePosition(300, 100), parameters |-> P_slack, credentials |-> None, retries |-> 3, retry_on_fail |-> FALSE],
      [id |-> S_n1, name |-> <<"c">>, type |-> K_set, position |-> NodePosition(100, 100), parameters |-> EmptyDict, credentials |-> None, retries |-> 3, retry_on_fail |-> TRUE]>>

\* the calls combine_workflows([W1, W2], "combined_workflow") followed by
\* in-place operations on the result
AliasCalls ==
    {[op |-> "alias", workflows |-> <<N8nWorkflow(<<"w", "_", "1">>, n1, EmptyDict, EmptyDict, None, FALSE, <<>>).val, N8nWorkflow(<<"w", "_", "2">>, n2, EmptyDict, EmptyDict, None, FALSE, <<>>).val>>] :
        n1, n2 \in {<<AliasNodes[1]>>, <<AliasNodes[2]>>, <<AliasNodes[3]>>, <<AliasNodes[1], AliasNodes[2]>>, <<AliasNodes[3], AliasNodes[2]>>}}

\* the addresses first + 1 .. first + n, in order
Addresses(first, n) ==
    [i \in 1..n |-> first + i]

InitAlias ==
    /\ call \in AliasCalls
    /\ wf = call.workflows[1].nodes \o call.workflows[2].nodes
    /\ prev = <<[call.workflows[1] EXCEPT !.nodes = Addresses(0, Len(call.workflows[1].nodes))],
                [call.workflows[2] EXCEPT !.nodes = Addresses(Len(call.workflows[1].nodes), Len(call.workflows[2].nodes))]>>
    /\ asm = None
    /\ ops = <<>>
    /\ ret = None
    /\ results = None
    /\ report = None

\* a workflow object with its node objects read from the heap
Deref(w) ==
    [w EXCEPT !.nodes = [i \in 1..Len(w.nodes) |-> wf[w.nodes[i]]]]

\* combined = processor.combine_workflows([W1, W2], "combined_workflow"):
\* the result lists the node objects of W1 themselves and, after them, new
\* objects for the nodes of W2
CombineObjects ==
    /\ call.op = "alias"
    /\ asm = None
    /\ ret = None
    /\ ret' = combine_workflows(<<Deref(prev[1]), Deref(prev[2])>>, <<"c", "o", "m", "b", "i", "n", "e", "d", "_", "w", "o", "r", "k", "f", "l", "o", "w">>)
    /\ IF ret'.ok
       THEN /\ wf' = wf \o SubSeq(ret'.val.nodes, Len(prev[1].nodes) + 1, Len(ret'.val.nodes))
            /\ asm' = [ret'.val EXCEPT !.nodes = prev[1].nodes \o Addresses(Len(wf), Len(prev[2].nodes))]
       ELSE UNCHANGED <<wf, asm>>
    /\ UNCHANGED <<call, prev, ops, results, report>>

\* an operation that assigns to the fields of the node objects of the
\* combined workflow and to its name: r is what it leaves, as values
InPlace(opname, r) ==
    /\ call.op = "alias"
    /\ asm # None
    /\ Len(ops) < MaxOps
    /\ r.ok
    /\ ops' = Append(ops, opname)
    /\ ret' = r
    /\ wf' = [a \in 1..Len(wf) |-> IF \E i \in 1..Len(asm.nodes) : asm.nodes[i] = a
                                   THEN r.val.nodes[CHOOSE i \in 1..Len(asm.nodes) : asm.nodes[i] = a]
                                   ELSE wf[a]]
    /\ asm' = [r.val EXCEPT !.nodes = asm.nodes]
    /\ UNCHANGED <<call, prev, results, report>>

EnforceNamingInPlace ==
    InPlace("enforce_naming", enforce_naming_conventions(Deref(asm)))

InjectRetriesInPlace ==
    InPlace("inject_retries", inject_retry_logic(Deref(asm)))

InjectIdempotencyInPlace ==
    InPlace("inject_idempotency", add_idempotency_keys(Deref(asm)))

NextAlias ==
    \/ CombineObjects
    \/ EnforceNamingInPlace
    \/ InjectRetriesInPlace
    \/ InjectIdempotencyInPlace

SpecAlias == InitAlias /\ [][NextAlias]_vars

\* the node names, retry fields and parameters of the k-th input workflow
\* are those it was constructed with
InputUnchanged(k) ==
    \A i \in 1..Len(prev[k].nodes) :
        /\ wf[prev[k].nodes[i]].name = call.workflows[k].nodes[i].name
        /\ wf[prev[k].nodes[i]].retries = call.workflows[k].nodes[i].retries
        /\ wf[prev[k].nodes[i]].retry_on_fail = call.workflows[k].nodes[i].retry_on_fail
        /\ wf[prev[k].nodes[i]].parameters = call.workflows[k].nodes[i].parameters

\* C26: processor side effects stay confined to the workflow passed in:
\* after combine([W1, W2]) and any later in-place transformation of the
\* combined result (enforce_naming, inject_retries, inject_idempotency),
\* the node names, retry fields and parameters of the input workflows W1
\* and W2 are unchanged
C26_InputsUnchanged ==
    asm # None => InputUnchanged(1) /\ InputUnchanged(2)
(***************************************************************************)
(* Node counts of processed workflows (checked under SpecAsm).             *)
(***************************************************************************)
\* process_workflow(workflow_name) has returned
Processed ==
    call.op = "process" /\ ret # None

\* the templates the call names
TemplateNames ==
    IF call.op = "assemble" THEN call.workflow_names ELSE <<call.workflow_name>>

RECURSIVE TemplateNodeCount(_, _)
\* the number of nodes the named template files hold in total
TemplateNodeCount(vault, names) ==
    IF names = <<>> THEN 0 ELSE Len(vault[Head(names)].data.nodes) + TemplateNodeCount(vault, Tail(names))

\* no node of the named template files is named as a shadow
TemplatesUnprefixed(vault, names) ==
    \A k \in 1..Len(names) : \A i \in 1..Len(vault[names[k]].data.nodes) :
        /\ ~ StartsWith(vault[names[k]].data.nodes[i].name, <<"l", "o", "g", "_", "_">>)
        /\ ~ StartsWith(vault[names[k]].data.nodes[i].name, <<"e", "r", "r", "o", "r", "_", "_">>)

\* C27: for templates that hold n nodes in total, none named with a log__
\* or error__ prefix, assemble and process_workflow return exactly 4n
\* nodes: the n originals, n log__ shadows and 2n error__ shadows; so the
\* node-count result of the schema level passes for n up to 12 and fails
\* from n = 13 on
C27_FourNodesPerTemplateNode ==
    ((Assembled \/ Processed) /\ ret.ok /\ TemplatesUnprefixed(call.vault, TemplateNames)) =>
        LET n == TemplateNodeCount(call.vault, TemplateNames)
        IN /\ Len(ret.val.nodes) = 4 * n
           /\ Cardinality(Originals(ret.val)) = n
           /\ CountPrefixed(ret.val, <<"l", "o", "g", "_", "_">>) = n
           /\ CountPrefixed(ret.val, <<"e", "r", "r", "o", "r", "_", "_">>) = 2 * n
           /\ Validated => (results[2].passed <=> n <= 12)
           /\ (Validated /\ n >= 13) => ~ results[2].passed

\* templates of 6 and 7 nodes were assembled to 52 nodes and the node-count
\* result failed
C27_Witness ==
    /\ Assembled
    /\ call.workflow_names = <<"S6", "S7">>
    /\ ret.ok
    /\ TemplatesUnprefixed(call.vault, TemplateNames)
    /\ Len(ret.val.nodes) = 52
    /\ Validated
    /\ ~ results[2].passed

(***************************************************************************)
(* Node ids after combining and after instrumentation.                     *)
(***************************************************************************)
\* the node ids of w are pairwise distinct
DistinctIds(w) ==
    \A i, j \in 1..Len(w.nodes) : w.nodes[i].id = w.nodes[j].id => i = j

RECURSIVE SourceKeyCount(_)
\* the number of source keys the connection maps of ws hold in total
SourceKeyCount(ws) ==
    IF Len(ws) = 0 THEN 0 ELSE Cardinality(DOMAIN Head(ws).connections) + SourceKeyCount(Tail(ws))

\* C28: when every workflow handed to combine has pairwise distinct node
\* ids and the workflows have pairwise distinct names, the node ids of the
\* combined workflow are pairwise distinct and no connection entry of an
\* earlier workflow is overwritten by an entry of a later one (the combined
\* map holds as many source keys as the inputs together)
C28_CombineKeepsIdsDistinct ==
    (/\ Combined
     /\ \A k \in 1..Len(call.workflows) : DistinctIds(call.workflows[k])
     /\ \A k, l \in 1..Len(call.workflows) : call.workflows[k].name = call.workflows[l].name => k = l) =>
        /\ DistinctIds(ret.val)
        /\ Cardinality(DOMAIN ret.val.connections) = SourceKeyCount(call.workflows)

\* C29: inject_logging and inject_error_handling keep node ids pairwise
\* distinct: whenever one of them has run on a workflow whose node ids were
\* pairwise distinct (the workflow an earlier call of either operation left
\* included), the node ids are pairwise distinct afterwards
C29_InstrumentationKeepsIdsDistinct ==
    ((LastOp("inject_logging") \/ LastOp("inject_error_handling")) /\ ret.ok /\ DistinctIds(prev)) =>
        DistinctIds(wf)

(***************************************************************************)
(* The retry policy of processed workflows (checked under SpecAsm).        *)
(***************************************************************************)
\* the parameters hold the retry policy
HasRetryPolicy(parameters) ==
    /\ {<<"r", "e", "t", "r", "y", "O", "n", "F", "a", "i", "l">>, <<"m", "a", "x", "T", "r", "i", "e", "s">>, <<"w", "a", "i", "t", "B", "e", "t", "w", "e", "e", "n", "T", "r", "i", "e", "s">>} \subseteq DOMAIN parameters
    /\ parameters[<<"r", "e", "t", "r", "y", "O", "n", "F", "a", "i", "l">>] = BoolVal(TRUE)
    /\ parameters[<<"m", "a", "x", "T", "r", "i", "e", "s">>] = NumVal(3)
    /\ parameters[<<"w", "a", "i", "t", "B", "e", "t", "w", "e", "e", "n", "T", "r", "i", "e", "s">>] = NumVal(200)

\* C30: every original (non-shadow) node of a workflow that process_workflow
\* or assemble returns carries the retry policy in its parameters
\* (retryOnFail true, maxTries 3, waitBetweenTries 200), and the saved wire
\* format shows the policy nowhere else: its nodes have no retries and no
\* retry_on_fail key
C30_RetryPolicyInParameters ==
    ((Assembled \/ Processed) /\ ret.ok) =>
        /\ \A i \in Originals(ret.val) : HasRetryPolicy(ret.val.nodes[i].parameters)
        /\ \A i \in 1..Len(ret.val.nodes) : DOMAIN to_n8n_json(ret.val).nodes[i] \cap {"retries", "retry_on_fail"} = {}

====
